---- MODULE Spec2Model ----
(***************************************************************************)
(* Model of the plantmobile platform driver (position/region tracking and  *)
(* the move_direction loop), of control_loop, of the ButtonHandler         *)
(* controller with its gpiozero callbacks and of the ShadowAvoider         *)
(* controller (aggregation, light classification, move table and the move  *)
(* requests it hands to move_direction), as found in src/plantmobile.      *)
(* SpecButtons is control_loop with the button handler, SpecLoop with both *)
(* controllers.  The components they are built on have a specification     *)
(* each: the light reading and its classifier (SpecLux), LuxAggregator     *)
(* (SpecAggregator), the ultrasonic boundary sensor behind get_region      *)
(* (SpecDistance), LightCsvLogger (SpecLogger), the two press callbacks    *)
(* apart from the pins (SpecPress); SpecAvoider, SpecAvoiderInner,         *)
(* SpecWindow and SpecMean are control_loop with the shadow avoider on     *)
(* ticks the button handler lets pass.                                     *)
(*                                                                         *)
(* Optional[int] values are modelled as sequences of length 0 or 1:        *)
(* None is <<>>, the integer p is <<p>>.  Voltages are in tenths of a volt *)
(* so that the 4.0 V cutoff is the integer 40.                             *)
(***************************************************************************)
EXTENDS Integers, Sequences, FiniteSets, TLC

VARIABLES
    position,            \* MobilePlatform.position : Optional[int]
    status,              \* the last Status read by the poll thread (position, region)
    sensor,              \* what the last get_region did with the boundary sensor
    pc,                  \* where the poll thread is ("notify": ShadowAvoider._move waits in
                         \* _notify(); "crashed": control_loop has been left by an
                         \* exception it does not catch)
    caller,              \* who called move_direction: "none", "harness", "button", "avoider"
    mv_dir,              \* move_direction: its direction argument
    mv_steps,            \* move_direction: the loop variable `steps`
    mv_start,            \* the tracked position when move_direction was entered
    mv_exit,             \* how the last iteration of move_direction left the loop
    direction_commanded, \* ButtonHandler._direction_commanded
    hold_mode,           \* ButtonHandler._hold_mode
    toggling,            \* the buttons whose _on_press is inside toggle_hold_mode: it has
                         \* cleared the command and the blink has not ended yet
    outer_button,        \* the outer button: "up", "pressing" (pin down, when_pressed
                         \* still to run), "down" (pressed), "held" (when_held has fired)
    inner_button,        \* the inner button, likewise
    action_result,       \* how the last ButtonHandler.perform_action ended
    enabled,             \* ToggleButton._enabled, read by ShadowAvoider.enabled()
    led_blinks,          \* the on()/off() calls made on the direction LEDs by the last
                         \* DebugPanel.blink that has returned
    prev_level,          \* ShadowAvoider._prev_level ("NONE" for None)
    since_run,           \* time.time() - ShadowAvoider._last_run_time, capped at the interval
    lux_agg,             \* ShadowAvoider._lux_agg._luxes
    av_result,           \* how the last ShadowAvoider.perform_action ended ("none": not called)
    av_request,          \* history: the direction of the move_direction call the last
                         \* perform_action made, right after the _notify() of its _move
                         \* ("NONE": it made none)
    av_prev,             \* history: the local prev_level of the last _perform_action
                         \* that classified (line 157), _prev_level as it found it
    cancel_steps,        \* history: motor step units since a callback first changed what
                         \* the continuation predicate of the current move reads (-1: none)
    controllers,         \* control_loop's parameter: the prioritized list of controllers
    buzzer,              \* DebugPanel.buzzer: whether the panel was given a Buzzer
    position_display,    \* DebugPanel._position_display: whether its outputs have one
    tick_log,            \* history: the perform_action calls of the current tick of
                         \* control_loop, each with the Status passed and how it ended
    error_out,           \* history: the debug_panel.output_error calls of the current tick
    sensor_values,       \* the values the two light sensors give to LightSensor.read
    lux_read,            \* the LuxReading LightSensor.read last returned (None: none yet)
    lux_level,           \* the last _lux_compare call: its argument, its result and the
                         \* _prev_level it was made with (None: none since the reading)
    agg_luxes,           \* a LuxAggregator: its _luxes
    agg_adds,            \* history: add() calls since the construction or the last clear()
    agg_average,         \* what LuxAggregator.average() last returned (None: not called)
    prev_distance,       \* DistanceSensor._prev_distance (None, or a distance: Cm(d) or Inf)
    hw_reads,            \* history: what the hardware reads of the last DistanceSensor.read gave
    distance_read,       \* the last DistanceSensor.read call: the distance cached when it
                         \* was entered and the value returned (None: not called yet)
    cur_timestamp,       \* LightCsvLogger._cur_timestamp (None or a minute)
    cur_timestamp_luxes, \* LightCsvLogger._cur_timestamp_luxes._luxes
    log_lines,           \* the lines LightCsvLogger has written to its file
    log_clock,           \* the timestamp, in seconds, of the last Status given to the logger
    minute_readings,     \* history: the readings of the statuses given so far in the
                         \* minute of log_clock
    hold_mode_before,    \* history: hold_mode when the second button's pin went down while
                         \* the other button was pressed (None when it was not)
    mv_checks            \* history: the motor voltage of the Status the last iteration of
                         \* move_direction read and what should_continue would answer
                         \* for it (None: no iteration yet)

vars == <<position, status, sensor, pc, caller, mv_dir, mv_steps, mv_start, mv_exit,
          direction_commanded, hold_mode, toggling, outer_button, inner_button,
          action_result, enabled, led_blinks, prev_level, since_run, lux_agg,
          av_result, av_request, av_prev, cancel_steps, controllers, buzzer,
          position_display, tick_log, error_out,
          sensor_values, lux_read, lux_level, agg_luxes, agg_adds, agg_average,
          prev_distance, hw_reads, distance_read, cur_timestamp, cur_timestamp_luxes,
          log_lines, log_clock, minute_readings, hold_mode_before, mv_checks>>

platform_vars == <<position, status, sensor, pc, caller, mv_dir, mv_steps, mv_start, mv_exit>>
button_vars == <<direction_commanded, hold_mode, toggling, outer_button, inner_button,
                 action_result, enabled, led_blinks>>
panel_vars == <<buzzer, position_display>>
setup_vars == <<controllers, panel_vars>>
loop_vars == <<setup_vars, tick_log, error_out>>
lux_vars == <<sensor_values, lux_read, lux_level, agg_luxes, agg_adds, agg_average>>
distance_vars == <<prev_distance, hw_reads, distance_read>>
logger_vars == <<cur_timestamp, cur_timestamp_luxes, log_lines, log_clock, minute_readings>>
check_vars == <<hold_mode_before, mv_checks>>
unit_vars == <<lux_vars, distance_vars, logger_vars, check_vars>>
avoider_vars == <<prev_level, since_run, lux_agg, av_result, av_request, av_prev>>

----------------------------------------------------------------------------
(* Optional values *)

None == <<>>
Some(x) == <<x>>
IsNone(o) == o = <<>>
Val(o) == o[1]

----------------------------------------------------------------------------
(* common.py: Region and Direction *)

OUTER_EDGE_VALUE == 0
INNER_EDGE_VALUE == 100

\* Region.size()
RegionSize ==
    IF INNER_EDGE_VALUE >= OUTER_EDGE_VALUE
    THEN INNER_EDGE_VALUE - OUTER_EDGE_VALUE
    ELSE OUTER_EDGE_VALUE - INNER_EDGE_VALUE

Regions == {"UNKNOWN", "OUTER_EDGE", "MID", "INNER_EDGE"}
Directions == {"OUTER", "INNER"}

\* Direction.value
DirectionValue(d) == IF d = "OUTER" THEN -1 ELSE 1

\* Direction.extreme_edge
extreme_edge(d) == IF d = "OUTER" THEN "OUTER_EDGE" ELSE "INNER_EDGE"

----------------------------------------------------------------------------
(* platform_driver.py *)

MOTOR_VOLTAGE_CUTOFF == 40

\* The tracked position may drift below the outer edge without bound while
\* the boundary sensor keeps reporting "in range".  The runs start a move
\* towards OUTER only from a position at most MaxDrift below the edge.
MaxDrift == 2

\* What VoltageReader.read() can give (None: no voltage reader configured).
VoltageReadings == {None, Some(MOTOR_VOLTAGE_CUTOFF - 1), Some(MOTOR_VOLTAGE_CUTOFF)}

\* What DistanceSensor.is_in_range() can answer.
InRangeAnswers == BOOLEAN

\* Whether the runs start a move towards direction from pos.
WithinDrift(pos, direction) ==
    IF direction = "INNER" \/ IsNone(pos)
    THEN TRUE
    ELSE Val(pos) >= OUTER_EDGE_VALUE - MaxDrift

\* max_distance = int(Region.size() * 1.1)
max_distance == (RegionSize * 11) \div 10

STEPS_PER_MOVE == 7

\* _voltage_low with the comparison turned round.
VoltageLowInverted(motor_voltage) ==
    ~IsNone(motor_voltage) /\ Val(motor_voltage) > MOTOR_VOLTAGE_CUTOFF

\* MobilePlatform._voltage_low
voltage_low(motor_voltage) ==
    ~IsNone(motor_voltage) /\ Val(motor_voltage) < MOTOR_VOLTAGE_CUTOFF

\* get_region asking the sensor whatever force_edge_check says.
QueriesSensorRegardless(pos, force_edge_check) == pos # Some(INNER_EDGE_VALUE)

\* Whether get_region calls distance_sensor.is_in_range().
QueriesSensor(pos, force_edge_check) ==
    pos # Some(INNER_EDGE_VALUE) /\ (IsNone(pos) \/ force_edge_check)

\* MobilePlatform._reset_pos_to_outer_edge: the position it leaves.
reset_pos_to_outer_edge == Some(OUTER_EDGE_VALUE)

\* get_region resetting the position only when it is still unknown.
GetRegionPosInitOnly(pos, force_edge_check, in_range) ==
    IF IsNone(pos) /\ ~in_range THEN reset_pos_to_outer_edge ELSE pos

\* get_region dropping the position when the sensor denies the edge at 0.
GetRegionPosForget(pos, force_edge_check, in_range) ==
    IF QueriesSensor(pos, force_edge_check) /\ ~in_range
    THEN reset_pos_to_outer_edge
    ELSE IF force_edge_check /\ in_range /\ pos = Some(OUTER_EDGE_VALUE) THEN None
    ELSE pos

\* MobilePlatform.get_region: the position it leaves behind.
GetRegionPos(pos, force_edge_check, in_range) ==
    IF QueriesSensor(pos, force_edge_check) /\ ~in_range
    THEN reset_pos_to_outer_edge
    ELSE pos

\* get_region without the early return at the inner edge.
GetRegionRetNoInner(pos, force_edge_check, in_range) ==
    LET at_outer_edge ==
            IF IsNone(pos) \/ force_edge_check
            THEN ~in_range
            ELSE pos = Some(OUTER_EDGE_VALUE)
    IN  IF at_outer_edge THEN "OUTER_EDGE"
        ELSE IF ~IsNone(pos) THEN "MID"
        ELSE "UNKNOWN"

\* get_region asking the sensor before it looks at the inner edge.
GetRegionRetSensorFirst(pos, force_edge_check, in_range) ==
    IF (IsNone(pos) \/ force_edge_check) /\ ~in_range THEN "OUTER_EDGE"
    ELSE IF pos = Some(INNER_EDGE_VALUE) THEN "INNER_EDGE"
    ELSE IF pos = Some(OUTER_EDGE_VALUE) /\ ~force_edge_check THEN "OUTER_EDGE"
    ELSE IF ~IsNone(pos) THEN "MID"
    ELSE "UNKNOWN"

\* get_region deciding the outer edge from the position alone.
GetRegionRetNoSensor(pos, force_edge_check, in_range) ==
    IF pos = Some(INNER_EDGE_VALUE) THEN "INNER_EDGE"
    ELSE IF pos = Some(OUTER_EDGE_VALUE) THEN "OUTER_EDGE"
    ELSE IF ~IsNone(GetRegionPos(pos, force_edge_check, in_range)) THEN "MID"
    ELSE "UNKNOWN"

\* MobilePlatform.get_region: the region it returns.
GetRegionRet(pos, force_edge_check, in_range) ==
    IF pos = Some(INNER_EDGE_VALUE) THEN "INNER_EDGE"
    ELSE LET at_outer_edge ==
                 IF IsNone(pos) \/ force_edge_check
                 THEN ~in_range
                 ELSE pos = Some(OUTER_EDGE_VALUE)
             after == GetRegionPos(pos, force_edge_check, in_range)
         IN  IF at_outer_edge THEN "OUTER_EDGE"
             ELSE IF ~IsNone(after) THEN "MID"
             ELSE "UNKNOWN"

\* MobilePlatform.get_status: position is read before get_region runs.
GetStatus(pos, force_edge_check, in_range) ==
    [position |-> pos, region |-> GetRegionRet(pos, force_edge_check, in_range)]

\* The loop without its explicit max_distance exit.
MoveBranchNoMaxCheck(steps, direction, motor_voltage, cont, region) ==
    IF steps > max_distance THEN "assert"
    ELSE IF voltage_low(motor_voltage) THEN "battery"
    ELSE IF ~cont THEN "stopped"
    ELSE IF region = extreme_edge(direction) THEN "at_edge"
    ELSE "step"

\* The loop asking the continuation predicate before it looks at the voltage.
MoveBranchPredicateFirst(steps, direction, motor_voltage, cont, region) ==
    IF steps > max_distance THEN "assert"
    ELSE IF ~cont THEN "stopped"
    ELSE IF voltage_low(motor_voltage) THEN "battery"
    ELSE IF region = extreme_edge(direction) THEN "at_edge"
    ELSE IF steps = max_distance THEN "max_distance"
    ELSE "step"

\* The branch one iteration of move_direction's loop takes.
MoveBranch(steps, direction, motor_voltage, cont, region) ==
    IF steps > max_distance THEN "assert"
    ELSE IF voltage_low(motor_voltage) THEN "battery"
    ELSE IF ~cont THEN "stopped"
    ELSE IF region = extreme_edge(direction) THEN "at_edge"
    ELSE IF steps = max_distance THEN "max_distance"
    ELSE "step"

\* What get_region did with the boundary sensor.
SensorOutcome(pos, force_edge_check, in_range) ==
    IF ~QueriesSensor(pos, force_edge_check) THEN "not_queried"
    ELSE IF in_range THEN "in_range"
    ELSE "at_edge"

\* The position advanced by the motor steps of a unit instead of by one.
StepPositionBySteps(pos, direction) ==
    IF IsNone(pos) THEN None
    ELSE Some(Val(pos) + DirectionValue(direction) * STEPS_PER_MOVE)

\* The position after motor.move_steps in move_direction (lines 131-134).
StepPosition(pos, direction) ==
    IF IsNone(pos) THEN None ELSE Some(Val(pos) + DirectionValue(direction))

----------------------------------------------------------------------------
(* common.py and input_device/light_sensor.py: lux readings *)

\* int(n / d) for d > 0: Python's int() truncates towards zero.
IntTrunc(n, d) == IF n >= 0 THEN n \div d ELSE -((-n) \div d)

\* int(np.mean((a, b)))
IntMean2(a, b) == IntTrunc(a + b, 2)

Abs(x) == IF x < 0 THEN -x ELSE x

\* The whole percents k up to 300 for which the double (k / 100) * 100 is
\* just below k: there int(diff / avg * 100) gives k - 1.  |diff / avg| is
\* at most 3, avg being the truncated mean of two values that are not
\* negative.
FloatLowPercents ==
    {29, 57, 58, 113, 114, 115, 116, 201, 203, 205, 207, 226, 228, 230, 232, 251, 253, 255}

\* int(diff / avg * 100) for avg > 0, the quotient and the product being
\* doubles: a percent that is not whole is truncated towards zero, a whole
\* one comes out one short where the double product falls below it.
PercentTrunc(diff, avg) ==
    LET exact == IntTrunc(diff * 100, avg)
    IN  IF (Abs(diff) * 100) % avg = 0 /\ Abs(exact) \in FloatLowPercents
        THEN IF exact > 0 THEN exact - 1 ELSE exact + 1
        ELSE exact

\* common.get_diff_percent(outer, inner)
get_diff_percent(outer, inner) ==
    LET avg == IntMean2(outer, inner)
        diff == inner - outer
    IN  IF avg # 0 THEN PercentTrunc(diff, avg) ELSE 0

\* LightSensor.read: the LuxReading made of the two sensor values.
LuxReading(outer, inner) ==
    [outer |-> outer, inner |-> inner, avg |-> IntMean2(outer, inner),
     diff |-> inner - outer, diff_percent |-> get_diff_percent(outer, inner)]

\* The sensor values the light sensors give: dark, dim, bright, and bright
\* with a shadow on the inner or on the outer sensor.
LuxReadings ==
    {LuxReading(p[1], p[2]) :
        p \in {<<200, 200>>, <<400, 400>>, <<600, 600>>, <<600, 300>>, <<300, 600>>}}

LuxFields == {"outer", "inner", "avg", "diff", "diff_percent"}

RECURSIVE SumField(_, _)
SumField(luxes, field) ==
    IF luxes = <<>> THEN 0 ELSE Head(luxes)[field] + SumField(Tail(luxes), field)

IntAvgFloor(luxes, field) == SumField(luxes, field) \div Len(luxes)

\* LuxAggregator._int_avg
int_avg(luxes, field) == IntTrunc(SumField(luxes, field), Len(luxes))

AddReplaces(luxes, lux) == <<lux>>

\* LuxAggregator.add
add(luxes, lux) == Append(luxes, lux)

ClearKeeps(luxes) == luxes

\* LuxAggregator.clear
clear(luxes) == <<>>

\* LuxAggregator.__len__
len(luxes) == Len(luxes)

\* LuxAggregator.average
average(luxes) == [field \in LuxFields |-> int_avg(luxes, field)]

----------------------------------------------------------------------------
(* controller/shadow_avoider.py: the light classifier and the move table *)

dim_lux_threshold == 300
bright_lux_threshold == 500
DIFF_PERCENT_CUTOFF == 30

\* The evaluation interval in seconds (a constructor parameter, 10 by
\* default); time is counted in whole seconds up to it.
run_interval_secs == 2

\* The most readings the aggregator holds between two evaluations.
MaxWindow == 2

LightLevels == {"DARK", "DIM", "BRIGHT", "OUTER_BRIGHTER", "INNER_BRIGHTER"}

Max2(a, b) == IF a >= b THEN a ELSE b

LuxCompareDimFirst(lux) ==
    LET intensity == Max2(lux.outer, lux.inner)
    IN  IF intensity < dim_lux_threshold THEN "DARK"
        ELSE IF intensity < bright_lux_threshold THEN "DIM"
        ELSE IF Abs(lux.diff_percent) >= DIFF_PERCENT_CUTOFF
             THEN IF lux.outer > lux.inner THEN "OUTER_BRIGHTER"
                  ELSE IF lux.inner > lux.outer THEN "INNER_BRIGHTER"
                  ELSE "assert"
        ELSE "BRIGHT"

\* ShadowAvoider._lux_compare ("assert": the 'Inconsistent lux reading' assertion)
lux_compare(lux) ==
    LET intensity == Max2(lux.outer, lux.inner)
    IN  IF intensity < dim_lux_threshold THEN "DARK"
        ELSE IF Abs(lux.diff_percent) >= DIFF_PERCENT_CUTOFF
             THEN IF lux.outer > lux.inner THEN "OUTER_BRIGHTER"
                  ELSE IF lux.inner > lux.outer THEN "INNER_BRIGHTER"
                  ELSE "assert"
        ELSE IF intensity < bright_lux_threshold THEN "DIM"
        ELSE "BRIGHT"

TableBrightAlwaysOuter(prev, level) ==
    IF level = "DARK" THEN "INNER"
    ELSE IF level = "OUTER_BRIGHTER" THEN "OUTER"
    ELSE IF level = "INNER_BRIGHTER" THEN "INNER"
    ELSE IF level = "BRIGHT" THEN "OUTER"
    ELSE "NONE"

\* _perform_action lines 160-178: the direction _move is called with for
\* the previous and the new light level ("NONE": _move is not called).
table_direction(prev, level) ==
    IF level = "DARK" THEN "INNER"
    ELSE IF level = "OUTER_BRIGHTER" THEN "OUTER"
    ELSE IF level = "INNER_BRIGHTER" THEN "INNER"
    ELSE IF level = "BRIGHT"
         THEN IF prev = "INNER_BRIGHTER" THEN "OUTER"
              ELSE IF prev \in {"DARK", "DIM"} THEN "OUTER"
              ELSE "NONE"
    ELSE "NONE"

\* _perform_action line 148: whether the initialization move is undone.
rollback_wanted(avg_after, avg_before) ==
    get_diff_percent(avg_after, avg_before) >= DIFF_PERCENT_CUTOFF

EvaluationOneSecondEarly(elapsed) == ~(elapsed < run_interval_secs - 1)

\* ShadowAvoider.perform_action line 125: whether this tick evaluates.
evaluation_due(elapsed) == ~(elapsed < run_interval_secs)

----------------------------------------------------------------------------
(* State after construction *)

NoStatus == [position |-> None, region |-> "UNKNOWN"]

InitPlatform ==
    /\ position = None
    /\ status = NoStatus
    /\ sensor = "not_queried"
    /\ caller = "none"
    /\ mv_dir = "NONE"
    /\ mv_steps = 0
    /\ mv_start = None
    /\ mv_exit = "none"

InitButtons ==
    /\ direction_commanded = "NONE"
    /\ hold_mode = FALSE
    /\ toggling = {}
    /\ outer_button = "up"
    /\ inner_button = "up"
    /\ action_result = "none"
    /\ enabled = FALSE
    /\ led_blinks = <<>>
    /\ cancel_steps = -1

InitAvoider ==
    /\ prev_level = "NONE"
    /\ since_run = run_interval_secs
    /\ lux_agg = <<>>
    /\ av_result = "none"
    /\ av_request = "NONE"
    /\ av_prev = "NONE"

\* The controllers of the package in their priority order.
Controllers == <<"ButtonHandler", "ShadowAvoider">>

\* DebugPanel(buzzer=..., outputs=...) (debug_panel.py lines 13-29): a panel
\* is <<whether it has a buzzer, whether it has a position display>>.  Both
\* are optional, and a panel constructed with the defaults has neither.
\* The direction LEDs, which DebugPanel.blink asserts (line 75), are among
\* the outputs of every panel here.
Panels == BOOLEAN \X BOOLEAN

\* control_loop(platform, status_monitor, list) is entered, the controllers
\* having been constructed with a debug panel of panels.
InitLoopOf(list, panels) ==
    /\ controllers = list
    /\ \E panel \in panels : buzzer = panel[1] /\ position_display = panel[2]
    /\ tick_log = <<>>
    /\ error_out = <<>>

\* Both controllers, with whatever panel.
InitLoop == InitLoopOf(Controllers, Panels)

\* Both controllers with the complete panel, which has the display and the
\* buzzer that output_error asserts (line 61).
InitLoopComplete == InitLoopOf(Controllers, {<<TRUE, TRUE>>})

InitLux ==
    /\ lux_read = None
    /\ lux_level = None
    /\ agg_luxes = <<>>
    /\ agg_adds = 0
    /\ agg_average = None

InitDistance ==
    /\ prev_distance = None
    /\ hw_reads = <<>>
    /\ distance_read = None

InitLogger ==
    /\ cur_timestamp = None
    /\ cur_timestamp_luxes = <<>>
    /\ log_lines = <<>>
    /\ log_clock = 0
    /\ minute_readings = <<>>

InitChecks == mv_checks = None /\ hold_mode_before = None

\* The components that take no part in a specification, as constructed.
InitUnits ==
    InitLux /\ sensor_values = <<0, 0>> /\ InitDistance /\ InitLogger /\ InitChecks

----------------------------------------------------------------------------
(* move_direction *)

\* Entry of move_direction(direction, should_continue) from `who`, the
\* tracked position being start.
EnterMove(who, direction, start) ==
    /\ caller' = who
    /\ mv_dir' = direction
    /\ mv_steps' = 0
    /\ mv_start' = start
    /\ mv_exit' = "none"
    /\ pc' = "move_top"

\* One iteration of the loop up to the branch (lines 113-129): the status read
\* with its edge check, then the voltage, predicate, edge and distance checks.
MoveIterate(motor_voltage, in_range, cont) ==
    /\ pc = "move_top"
    /\ LET force == mv_dir = "OUTER"
           exhausted == mv_steps > max_distance
           st == GetStatus(position, force, in_range)
           br == MoveBranch(mv_steps, mv_dir, motor_voltage, cont, st.region)
       IN  /\ position' = IF exhausted THEN position
                          ELSE GetRegionPos(position, force, in_range)
           /\ status' = IF exhausted THEN status ELSE st
           /\ sensor' = IF exhausted THEN sensor
                        ELSE SensorOutcome(position, force, in_range)
           /\ mv_exit' = br
           /\ pc' = IF br = "step" THEN "move_step" ELSE "move_done"
    /\ UNCHANGED <<caller, mv_dir, mv_steps, mv_start>>

\* motor.move_steps(direction.motor_rotation, STEPS_PER_MOVE) and the position
\* update (lines 131-134), then the next value of `steps`.
MoveStep ==
    /\ pc = "move_step"
    /\ position' = StepPosition(position, mv_dir)
    /\ mv_steps' = mv_steps + 1
    /\ pc' = "move_top"
    /\ cancel_steps' = IF cancel_steps < 0 THEN cancel_steps
                       ELSE IF cancel_steps >= 2 THEN 2 ELSE cancel_steps + 1
    /\ UNCHANGED <<status, sensor, caller, mv_dir, mv_start, mv_exit>>
    /\ UNCHANGED <<button_vars, avoider_vars>>
    /\ UNCHANGED <<loop_vars, unit_vars>>

\* The locals of move_direction go out of scope.
LeaveMove ==
    /\ caller' = "none"
    /\ mv_dir' = "NONE"
    /\ mv_steps' = 0
    /\ mv_start' = None
    /\ mv_exit' = "none"

----------------------------------------------------------------------------
(* A caller of the platform driver with an arbitrary continuation predicate *)

HarnessGetStatus ==
    /\ pc = "idle"
    /\ \E force \in BOOLEAN : \E in_range \in InRangeAnswers :
          /\ position' = GetRegionPos(position, force, in_range)
          /\ status' = GetStatus(position, force, in_range)
          /\ sensor' = SensorOutcome(position, force, in_range)
    /\ UNCHANGED <<pc, caller, mv_dir, mv_steps, mv_start, mv_exit>>
    /\ UNCHANGED <<button_vars, avoider_vars, cancel_steps>>
    /\ UNCHANGED <<loop_vars, unit_vars>>

HarnessMove ==
    /\ pc = "idle"
    /\ \E d \in Directions : WithinDrift(position, d) /\ EnterMove("harness", d, position)
    /\ UNCHANGED <<position, status, sensor>>
    /\ UNCHANGED <<button_vars, avoider_vars, cancel_steps>>
    /\ UNCHANGED <<loop_vars, unit_vars>>

HarnessIterate ==
    /\ caller = "harness"
    /\ \E v \in VoltageReadings : \E in_range \in InRangeAnswers :
          \E cont \in BOOLEAN : MoveIterate(v, in_range, cont)
    /\ UNCHANGED <<button_vars, avoider_vars, cancel_steps>>
    /\ UNCHANGED <<loop_vars, unit_vars>>

HarnessReturn ==
    /\ pc = "move_done"
    /\ caller = "harness"
    /\ LeaveMove
    /\ pc' = "idle"
    /\ UNCHANGED <<position, status, sensor>>
    /\ UNCHANGED <<button_vars, avoider_vars, cancel_steps>>
    /\ UNCHANGED <<loop_vars, unit_vars>>

----------------------------------------------------------------------------
(* move_direction on its own, with the inputs of each iteration kept *)

\* The positions a move is started from.
CheckPositions ==
    {None, Some(OUTER_EDGE_VALUE), Some(OUTER_EDGE_VALUE + 1), Some(INNER_EDGE_VALUE - 1),
     Some(INNER_EDGE_VALUE)}

\* The status read of a tick of control_loop: platform.get_status() with
\* force_edge_check left at False (controller.py line 40).
CheckedGetStatus ==
    /\ pc = "idle"
    /\ \E in_range \in InRangeAnswers :
          /\ position' = GetRegionPos(position, FALSE, in_range)
          /\ status' = GetStatus(position, FALSE, in_range)
          /\ sensor' = SensorOutcome(position, FALSE, in_range)
    /\ UNCHANGED <<pc, caller, mv_dir, mv_steps, mv_start, mv_exit>>
    /\ UNCHANGED <<button_vars, avoider_vars, cancel_steps, loop_vars>>
    /\ UNCHANGED unit_vars

\* platform.move_direction(d, should_continue) is called.
CheckedMove ==
    /\ pc = "idle"
    /\ \E d \in Directions : WithinDrift(position, d) /\ EnterMove("harness", d, position)
    /\ mv_checks' = None
    /\ UNCHANGED hold_mode_before
    /\ UNCHANGED <<position, status, sensor>>
    /\ UNCHANGED <<button_vars, avoider_vars, cancel_steps, loop_vars>>
    /\ UNCHANGED <<lux_vars, distance_vars, logger_vars>>

\* One iteration of the loop: the Status read carries motor_voltage, and
\* should_continue, if it is called with that Status, answers cont.
CheckedIterate ==
    /\ caller = "harness"
    /\ \E v \in VoltageReadings : \E in_range \in InRangeAnswers :
          \E cont \in BOOLEAN :
             /\ MoveIterate(v, in_range, cont)
             /\ mv_checks' = Some([motor_voltage |-> v, cont |-> cont])
             /\ UNCHANGED hold_mode_before
    /\ UNCHANGED <<button_vars, avoider_vars, cancel_steps, loop_vars>>
    /\ UNCHANGED <<lux_vars, distance_vars, logger_vars>>

\* move_direction returns or raises.
CheckedReturn ==
    /\ pc = "move_done"
    /\ caller = "harness"
    /\ LeaveMove
    /\ pc' = "idle"
    /\ UNCHANGED <<position, status, sensor>>
    /\ UNCHANGED <<button_vars, avoider_vars, cancel_steps, loop_vars>>
    /\ UNCHANGED <<lux_vars, distance_vars, logger_vars, check_vars>>

----------------
(* controller/button_handler.py *)

Buttons == {"outer", "inner"}

ButtonState(b) == IF b = "outer" THEN outer_button ELSE inner_button

\* gpiozero Button.is_pressed
is_pressed(b) == ButtonState(b) # "up"

OtherButton(b) == IF b = "outer" THEN "inner" ELSE "outer"

\* ButtonHandler._corresponding_direction
corresponding_direction(b) == IF b = "inner" THEN "INNER" ELSE "OUTER"

\* The buttons' states with button b set to st.
SetButton(b, st) ==
    /\ outer_button' = IF b = "outer" THEN st ELSE outer_button
    /\ inner_button' = IF b = "inner" THEN st ELSE inner_button

\* should_continue looking for any command rather than the one it was given.
ShouldContinueAnyCommand == direction_commanded # "NONE"

\* should_continue of ButtonHandler._should_continue(direction_commanded),
\* the closure over the direction that perform_action passed (mv_dir).
should_continue == direction_commanded = mv_dir

AvoiderAlwaysEnabled == TRUE

\* ShadowAvoider.enabled
avoider_enabled == enabled

\* Whether a move_direction call of a controller is inside its loop.
MoveInProgress == caller = "button" /\ pc \in {"move_top", "move_step"}

\* control_loop is running: the callbacks of the buttons belong to the
\* program and run while it does.
Running == pc # "crashed"

\* History of the callbacks that change what the predicate of the move reads.
NoteCallback ==
    cancel_steps' =
        IF /\ MoveInProgress
           /\ cancel_steps < 0
           /\ direction_commanded' # direction_commanded
        THEN 0
        ELSE cancel_steps

\* DebugPanel._blink(on, off, times, ...): the calls it makes on the LEDs.
blink_calls(times) ==
    [i \in 1..(2 * times) |-> IF i % 2 = 1 THEN "on" ELSE "off"]

\* DebugPanel.blink(times, pause_secs): it passes times=2 to _blink whatever
\* it was given (debug_panel.py line 82).
blink(times) == blink_calls(2)

\* ButtonHandler.toggle_hold_mode: the blink it asks for.
toggle_hold_mode_blink == blink(3)

\* ButtonHandler.toggle_hold_mode (lines 84-87) called with _hold_mode = mode:
\* the blink, then the new (hold_mode, led_blinks).  The command is not
\* touched.
toggle_hold_mode(mode, blinks) == <<~mode, toggle_hold_mode_blink>>

\* _on_press in press mode commanding a direction on every press.
OnPressNeverCancels(b, both) ==
    IF both THEN <<"NONE", TRUE>>
    ELSE IF hold_mode THEN <<direction_commanded, FALSE>>
    ELSE <<corresponding_direction(b), FALSE>>

\* _on_press toggling the mode without clearing the command.
OnPressBothKeepsCommand(b, both) ==
    IF both THEN <<direction_commanded, TRUE>>
    ELSE IF hold_mode THEN <<direction_commanded, FALSE>>
    ELSE IF direction_commanded # "NONE" THEN <<"NONE", FALSE>>
    ELSE <<corresponding_direction(b), FALSE>>

\* ButtonHandler._on_press with both buttons read as `both`, up to its
\* return or to its call of toggle_hold_mode (lines 45-61): the new
\* direction_commanded, and whether toggle_hold_mode is called.
on_press(b, both) ==
    IF both THEN <<"NONE", TRUE>>
    ELSE IF hold_mode THEN <<direction_commanded, FALSE>>
    ELSE IF direction_commanded # "NONE" THEN <<"NONE", FALSE>>
    ELSE <<corresponding_direction(b), FALSE>>

\* _on_hold without the check for both buttons.
OnHoldIgnoresOther(b, both) ==
    IF ~hold_mode THEN direction_commanded ELSE corresponding_direction(b)

\* ButtonHandler._on_hold: the new direction_commanded.
on_hold(b, both) ==
    IF ~hold_mode THEN direction_commanded
    ELSE IF both THEN direction_commanded
    ELSE corresponding_direction(b)

\* ButtonHandler._on_release: the new direction_commanded.
on_release(b) ==
    IF hold_mode THEN "NONE" ELSE direction_commanded

\* _on_press(b) runs with both buttons read as `both` (lines 41-61), up to
\* its return or into the blink of toggle_hold_mode (debug_panel.py lines
\* 50-57, 0.8 s of sleeps), during which the other callbacks run.
PressBody(b, both) ==
    LET r == on_press(b, both)
    IN  /\ direction_commanded' = r[1]
        /\ toggling' = IF r[2] THEN toggling \cup {b} ELSE toggling
        /\ UNCHANGED <<hold_mode, led_blinks>>

\* Button b goes down and its when_pressed callback runs.  A button whose
\* when_pressed has not returned yet gets no other when_pressed.
OnPress(b) ==
    /\ Running
    /\ ButtonState(b) = "up"
    /\ b \notin toggling
    /\ SetButton(b, "down")
    /\ PressBody(b, is_pressed(OtherButton(b)))
    /\ UNCHANGED <<platform_vars, avoider_vars, action_result, enabled>>
    /\ NoteCallback
    /\ UNCHANGED <<loop_vars, unit_vars>>

\* The blink of a toggle_hold_mode call has ended: _hold_mode is read and
\* written (line 87) and the call returns to who made it.
ToggleEnds(who) ==
    /\ Running
    /\ who \in toggling
    /\ toggling' = toggling \ {who}
    /\ LET r == toggle_hold_mode(hold_mode, led_blinks)
       IN  hold_mode' = r[1] /\ led_blinks' = r[2]
    /\ UNCHANGED <<platform_vars, avoider_vars, direction_commanded, outer_button,
                   inner_button, action_result, enabled>>
    /\ NoteCallback
    /\ UNCHANGED <<loop_vars, unit_vars>>

\* The toggle_hold_mode that _on_press(b) called returns, and _on_press does
\* (lines 49-50).
OnPressToggled(b) == b \in Buttons /\ ToggleEnds(b)

\* A caller of toggle_hold_mode other than _on_press: the method is public.
DirectCaller == "caller"

\* toggle_hold_mode() is called directly and its blink begins.
ToggleHoldMode ==
    /\ Running
    /\ DirectCaller \notin toggling
    /\ toggling' = toggling \cup {DirectCaller}
    /\ UNCHANGED <<platform_vars, avoider_vars, direction_commanded, hold_mode, outer_button,
                   inner_button, action_result, enabled, led_blinks, cancel_steps>>
    /\ UNCHANGED <<loop_vars, unit_vars>>

\* The toggle_hold_mode called directly returns.
ToggleHoldModeReturns == DirectCaller \in toggling /\ ToggleEnds(DirectCaller)

\* Button b has been down for hold_time and its when_held callback runs.
OnHold(b) ==
    /\ Running
    /\ ButtonState(b) = "down"
    /\ SetButton(b, "held")
    /\ direction_commanded' = on_hold(b, is_pressed("outer") /\ is_pressed("inner"))
    /\ UNCHANGED <<platform_vars, avoider_vars, hold_mode, toggling, action_result, enabled,
                   led_blinks>>
    /\ NoteCallback
    /\ UNCHANGED <<loop_vars, unit_vars>>

\* Button b goes up and its when_released callback runs.
OnRelease(b) ==
    /\ Running
    /\ ButtonState(b) # "up"
    /\ SetButton(b, "up")
    /\ direction_commanded' = on_release(b)
    /\ UNCHANGED <<platform_vars, avoider_vars, hold_mode, toggling, action_result, enabled,
                   led_blinks>>
    /\ NoteCallback
    /\ UNCHANGED <<loop_vars, unit_vars>>

\* ToggleButton._toggle: the enable button's when_pressed callback.
OnToggle ==
    /\ Running
    /\ enabled' = ~enabled
    /\ UNCHANGED <<platform_vars, avoider_vars, direction_commanded, hold_mode, toggling,
                   outer_button, inner_button, action_result, led_blinks>>
    /\ NoteCallback
    /\ UNCHANGED <<loop_vars, unit_vars>>

\* The runs with the buttons keep the platform on the stretch of the track
\* from MaxDrift below the outer edge to MaxInward inward of it.
MaxInward == 2

\* Whether the runs with the buttons follow a motor step unit towards
\* direction from pos; a move with the position unknown is followed to its
\* end.
StepExplored(pos, direction) ==
    IF IsNone(pos)
    THEN TRUE
    ELSE /\ Val(pos) + DirectionValue(direction) >= OUTER_EDGE_VALUE - MaxDrift
         /\ Val(pos) + DirectionValue(direction) <= OUTER_EDGE_VALUE + MaxInward

\* control_loop line 47: controller.perform_action(st) is called, and how it
\* has ended so far ("running": it has not returned yet).
LogCall(log, controller, st, result) ==
    Append(log, [controller |-> controller, status |-> st, result |-> result])

\* The call control_loop made last has ended with result.
LogResult(log, result) == [log EXCEPT ![Len(log)].result = result]

\* The loop over the controllers without its break.
AfterControllerNeverBreaks(result, more) ==
    IF more THEN "next_controller" ELSE "tick"

\* DebugPanel.output_error (debug_panel.py lines 60-62): whether its
\* assertion of a position display and a buzzer fails.
output_error_asserts == ~(position_display /\ buzzer)

\* control_loop lines 45-54, a controller having returned or raised result,
\* more telling whether the list has controllers after it: the loop over the
\* controllers goes on to the next one after a False; the break after a True
\* and the end of the list lead to the sleep and the next tick; so does a
\* BatteryError, which is caught and given to debug_panel.output_error,
\* unless that raises AssertionError in the handler; any exception other
\* than BatteryError leaves control_loop.
after_controller(result, more) ==
    IF result = "False" /\ more THEN "next_controller"
    ELSE IF result \in {"True", "False"} THEN "tick"
    ELSE IF result = "BatteryError" /\ ~output_error_asserts THEN "tick"
    ELSE "crashed"

\* Whether the list has a controller after the i-th.
more_after(i) == i < Len(controllers)

\* control_loop lines 50-52: a BatteryError is caught and reported; the
\* display and the buzzer get the message once output_error has asserted
\* them.
error_output(result) ==
    IF result = "BatteryError" /\ ~output_error_asserts
    THEN Append(error_out, "BATT")
    ELSE error_out

\* control_loop: one tick up to ButtonHandler.perform_action's decision
\* (controller.py lines 40-47, button_handler.py lines 98-103, 108-109).
Tick ==
    /\ pc = "tick"
    /\ \E in_range \in InRangeAnswers :
          /\ position' = GetRegionPos(position, FALSE, in_range)
          /\ status' = GetStatus(position, FALSE, in_range)
          /\ sensor' = SensorOutcome(position, FALSE, in_range)
    /\ IF direction_commanded # "NONE"
       THEN /\ EnterMove("button", direction_commanded, position')
            /\ action_result' = "none"
            /\ tick_log' = LogCall(<<>>, "ButtonHandler", status', "running")
       ELSE /\ action_result' = "False"
            /\ tick_log' = LogCall(<<>>, "ButtonHandler", status', "False")
            /\ pc' = after_controller("False", more_after(1))
            /\ UNCHANGED <<caller, mv_dir, mv_steps, mv_start, mv_exit>>
    /\ UNCHANGED <<direction_commanded, hold_mode, toggling, outer_button, inner_button,
                   enabled, led_blinks, avoider_vars, cancel_steps>>
    /\ error_out' = <<>>
    /\ UNCHANGED <<setup_vars, unit_vars>>

\* One iteration of the move_direction that ButtonHandler.perform_action
\* called (line 103), its predicate being should_continue.
ButtonIterate ==
    /\ caller = "button"
    /\ \E v \in VoltageReadings : \E in_range \in InRangeAnswers :
          /\ MoveIterate(v, in_range, should_continue)
          /\ mv_exit' = "step" => StepExplored(position', mv_dir)
    /\ UNCHANGED <<button_vars, avoider_vars, cancel_steps>>
    /\ UNCHANGED <<loop_vars, unit_vars>>

\* The command cleared after the call instead of in a finally clause.
FinallyOnlyOnReturn(exit) ==
    IF exit = "battery" THEN direction_commanded ELSE "NONE"

\* What perform_action leaves in direction_commanded when move_direction has
\* returned or raised (the finally clause, lines 105-107).
finally_direction(exit) == "NONE"

\* perform_action after move_direction: the finally clause, then the return
\* to control_loop (True, or the BatteryError it catches).
PerformActionFinally ==
    /\ pc = "move_done"
    /\ caller = "button"
    /\ direction_commanded' = finally_direction(mv_exit)
    /\ action_result' = IF mv_exit = "battery" THEN "BatteryError" ELSE "True"
    /\ tick_log' = LogResult(tick_log, action_result')
    /\ error_out' = error_output(action_result')
    /\ cancel_steps' = -1
    /\ LeaveMove
    /\ pc' = after_controller(action_result', more_after(1))
    /\ UNCHANGED <<position, status, sensor, hold_mode, toggling, outer_button,
                   inner_button, enabled, led_blinks, avoider_vars>>
    /\ UNCHANGED <<setup_vars, unit_vars>>

----------------------------------------------------------------------------
(* controller/shadow_avoider.py: ShadowAvoider.perform_action *)

\* _move skipping only at the outer edge.
AtEdgeOuterOnly(direction, region) == direction = "OUTER" /\ region = "OUTER_EDGE"

\* ShadowAvoider._move: whether the move is skipped (already at that edge).
already_at_edge(direction, region) ==
    \/ direction = "OUTER" /\ region = "OUTER_EDGE"
    \/ direction = "INNER" /\ region = "INNER_EDGE"

\* The parameters of MobilePlatform.move_direction after self
\* (platform_driver.py lines 103-104): direction and should_continue.
move_direction_params == 2

\* The arguments of the move_direction call in ShadowAvoider._move (line
\* 113): direction, self._should_continue and steps.
move_call_args == 3

\* A call of a method whose parameters have no defaults: Python binds the
\* arguments before the body runs and raises TypeError when their number is
\* not that of the parameters.
call_outcome(args, params) == IF args = params THEN "entered" ELSE "TypeError"

\* ShadowAvoider._move(direction, region, ...) up to line 111: "skipped" when
\* the platform is at that edge already (it returns 0); otherwise "notify":
\* it calls _notify(), whose tune sleeps after each note, and makes the
\* move_direction call of line 113 only when the tune has been played.
move(direction, region) ==
    IF already_at_edge(direction, region) THEN "skipped" ELSE "notify"

\* time.time() moves on by a second between two polls of the clock.
TimePasses ==
    /\ pc \in {"tick", "next_controller"}
    /\ since_run < run_interval_secs
    /\ since_run' = since_run + 1
    /\ UNCHANGED <<platform_vars, button_vars, prev_level, lux_agg, av_result, av_request,
                   av_prev, cancel_steps>>
    /\ UNCHANGED <<loop_vars, unit_vars>>

\* perform_action returns result to control_loop or raises it, after
\* requesting a move towards request; last_run_time is set when an
\* evaluation ends, however it ends (the finally clause, lines 133-134).
AvoiderDone(result, evaluated, request) ==
    /\ av_result' = result
    /\ av_request' = request
    /\ tick_log' = LogCall(tick_log, "ShadowAvoider", status, result)
    /\ error_out' = error_output(result)
    /\ since_run' = IF evaluated THEN 0 ELSE since_run
    /\ led_blinks' = led_blinks
    /\ pc' = after_controller(result, more_after(2))

\* ShadowAvoider._notify (lines 77-81) has returned, blinks being the calls
\* of the blink that returned last before it: with a buzzer it has played
\* AUTO_MOVE_TUNE, which sleeps after each note (buzzer.py lines 27-31) and
\* leaves the LEDs alone; without one it has called
\* debug_panel.blink(times=2), which sleeps between its calls on the LEDs
\* (debug_panel.py lines 50-57).
notify(blinks) == IF buzzer THEN blinks ELSE blink(2)

\* perform_action has called _move(request, ...), which waits in _notify()
\* (line 111): the call of control_loop has not returned, the finally clause
\* has not run, and the callbacks of the buttons run during the tune or the
\* blink.
AvoiderNotifies(request) ==
    /\ av_result' = "running"
    /\ av_request' = request
    /\ tick_log' = LogCall(tick_log, "ShadowAvoider", status, "running")
    /\ error_out' = error_out
    /\ since_run' = since_run
    /\ led_blinks' = led_blinks
    /\ pc' = "notify"

\* _move(request, ...) having been called with outcome how: the evaluation
\* returns True when the move was skipped and waits in _notify() otherwise.
AfterMove(how, request) ==
    IF how = "skipped"
    THEN AvoiderDone("True", TRUE, "NONE")
    ELSE AvoiderNotifies(request)

\* _perform_action line 142: the direction of the initialization move.
init_direction == "OUTER"

\* _perform_action lines 141-154, platform.get_region() having given UNKNOWN
\* and left the position pos: the move towards OUTER, and where _move
\* returns (the Status of the tick has the platform at the outer edge) the
\* status read again, the comparison of the averages and the move back.
InitBranch(lux, pos, outcome) ==
    LET first == move(init_direction, status.region)
    IN  IF first # "skipped"
        THEN /\ position' = pos
             /\ sensor' = outcome
             /\ status' = status
             /\ AfterMove(first, init_direction)
        ELSE \E in_range \in InRangeAnswers : \E reading \in LuxReadings :
                LET new_status == GetStatus(pos, FALSE, in_range)
                    back == move("INNER", new_status.region)
                IN  /\ position' = GetRegionPos(pos, FALSE, in_range)
                    /\ sensor' = SensorOutcome(pos, FALSE, in_range)
                    /\ status' = new_status
                    /\ IF rollback_wanted(reading.avg, lux.avg)
                       THEN AfterMove(back, "INNER")
                       ELSE AvoiderDone("True", TRUE, "NONE")

\* _perform_action lines 156-179, platform.get_region() having left the
\* position pos: the level is classified and stored in _prev_level, then
\* _move is called with the direction of the table and the region of the
\* tick's Status.
TableBranch(lux, pos, outcome) ==
    LET level == lux_compare(lux)
        direction == table_direction(prev_level, level)
    IN  /\ position' = pos
        /\ sensor' = outcome
        /\ status' = status
        /\ av_prev' = prev_level
        /\ IF level = "assert"
           THEN /\ prev_level' = prev_level
                /\ AvoiderDone("AssertionError", TRUE, "NONE")
           ELSE /\ prev_level' = level
                /\ IF direction = "NONE"
                   THEN AvoiderDone("True", TRUE, "NONE")
                   ELSE AfterMove(move(direction, status.region), direction)

\* ShadowAvoider.perform_action(status) and _perform_action (lines 119-179),
\* called by control_loop after the button handler has returned False;
\* reading is the LuxReading of the tick's Status.  The reading is added to
\* the aggregator; before the run interval has passed that is all.  Else the
\* aggregator is averaged and cleared, and with the avoider enabled
\* platform.get_region() (line 140) decides between the initialization move
\* and the table.
AvoiderPerformBody(reading) ==
    /\ pc = "next_controller"
    /\ LET luxes == add(lux_agg, reading)
           lux == average(luxes)
       IN  IF ~evaluation_due(since_run)
           THEN /\ Len(lux_agg) < MaxWindow
                /\ lux_agg' = luxes
                /\ AvoiderDone("False", FALSE, "NONE")
                /\ UNCHANGED <<position, status, sensor, prev_level, av_prev>>
           ELSE /\ lux_agg' = clear(luxes)
                /\ IF ~avoider_enabled
                   THEN /\ AvoiderDone("False", TRUE, "NONE")
                        /\ UNCHANGED <<position, status, sensor, prev_level, av_prev>>
                   ELSE \E in_range \in InRangeAnswers :
                           LET region == GetRegionRet(position, FALSE, in_range)
                               after == GetRegionPos(position, FALSE, in_range)
                               outcome == SensorOutcome(position, FALSE, in_range)
                           IN  IF region = "UNKNOWN"
                               THEN /\ UNCHANGED <<prev_level, av_prev>>
                                    /\ InitBranch(lux, after, outcome)
                               ELSE TableBranch(lux, after, outcome)
    /\ UNCHANGED <<caller, mv_dir, mv_steps, mv_start, mv_exit>>
    /\ UNCHANGED <<direction_commanded, hold_mode, toggling, outer_button, inner_button,
                   action_result, enabled, cancel_steps, setup_vars>>

\* ShadowAvoider._move lines 111-113: _notify() returns, its blink made
\* where the panel has no buzzer, and then the call
\* self.platform.move_direction(direction, self._should_continue, steps).
\* What it raises passes through _move, _perform_action and perform_action,
\* whose finally clause sets _last_run_time (lines 133-134), to control_loop.
AvoiderMoveCall ==
    /\ pc = "notify"
    /\ LET result == call_outcome(move_call_args, move_direction_params)
       IN  /\ av_result' = result
           /\ tick_log' = LogResult(tick_log, result)
           /\ error_out' = error_output(result)
           /\ since_run' = 0
           /\ pc' = after_controller(result, more_after(2))
    /\ led_blinks' = notify(led_blinks)
    /\ UNCHANGED <<position, status, sensor, caller, mv_dir, mv_steps, mv_start, mv_exit>>
    /\ UNCHANGED <<prev_level, lux_agg, av_request, av_prev, cancel_steps>>
    /\ UNCHANGED <<direction_commanded, hold_mode, toggling, outer_button, inner_button,
                   action_result, enabled>>
    /\ UNCHANGED <<setup_vars, unit_vars>>

\* perform_action called with the Status of the tick, whose lux is any of the
\* sample readings.
AvoiderPerform ==
    /\ \E reading \in LuxReadings : AvoiderPerformBody(reading)
    /\ UNCHANGED unit_vars

\* The reading of the ticks in the runs with the buttons: dim, where the
\* table asks for no move, so that the avoider moves to find the position.
ButtonsReadings == {LuxReading(400, 400)}

\* perform_action called in the runs with the buttons.
AvoiderAct ==
    /\ \E reading \in ButtonsReadings : AvoiderPerformBody(reading)
    /\ UNCHANGED unit_vars

\* The readings LightSensor.read makes of a darker and a brighter pair of
\* sensor values, each with its inner or its outer sensor 200 higher.
MeanReadings ==
    {LuxReading(100, 300), LuxReading(300, 100), LuxReading(1000, 800), LuxReading(800, 1000)}

\* perform_action called on ticks whose readings are of those.
MeanPerform ==
    /\ \E reading \in MeanReadings : AvoiderPerformBody(reading)
    /\ UNCHANGED unit_vars

\* The readings of the ticks in the specification that keeps the windows.
WindowReadings == {LuxReading(200, 200), LuxReading(600, 600), LuxReading(600, 300)}

\* perform_action as above, the readings of the ticks it was called on being
\* kept aside: agg_luxes is the window of readings up to this call that
\* began after the evaluation before, agg_adds the number of them not yet
\* taken by an evaluation.
WindowPerform ==
    /\ \E reading \in WindowReadings :
          /\ AvoiderPerformBody(reading)
          /\ agg_luxes' = IF agg_adds = 0 THEN <<reading>> ELSE Append(agg_luxes, reading)
    /\ agg_adds' = IF evaluation_due(since_run) THEN 0 ELSE agg_adds + 1
    /\ UNCHANGED <<sensor_values, lux_read, lux_level, agg_average>>
    /\ UNCHANGED <<distance_vars, logger_vars, check_vars>>

----------------------------------------------------------------------------
(* input_device/light_sensor.py and the light classifier on their own *)

\* The infrared values the two TSL2561 sensors give.
SensorValues == {0, 41, 100, 102, 170, 171, 229, 299, 300, 499, 500}

\* The diff_percent values around the cutoff that an aggregated reading can
\* carry whatever its outer and inner fields are.
CutoffPercents ==
    {-DIFF_PERCENT_CUTOFF, 1 - DIFF_PERCENT_CUTOFF, DIFF_PERCENT_CUTOFF - 1, DIFF_PERCENT_CUTOFF}

\* LightSensor.read with the sensors giving outer and inner.
LuxRead ==
    /\ \E outer \in SensorValues : \E inner \in SensorValues :
          /\ sensor_values' = <<outer, inner>>
          /\ lux_read' = Some(LuxReading(outer, inner))
    /\ lux_level' = None
    /\ UNCHANGED <<agg_luxes, agg_adds, agg_average, distance_vars, logger_vars, check_vars>>
    /\ UNCHANGED <<platform_vars, button_vars, avoider_vars, cancel_steps, loop_vars>>

\* _perform_action lines 157-158: _lux_compare is applied to the reading, or
\* to a reading with the same fields but for diff_percent, and its result
\* stored in _prev_level; the call is kept with what _prev_level was.
LuxCompare ==
    /\ ~IsNone(lux_read)
    /\ \E percent \in {Val(lux_read).diff_percent} \cup CutoffPercents :
          LET lux == [Val(lux_read) EXCEPT !.diff_percent = percent]
              level == lux_compare(lux)
          IN  /\ lux_level' = Some([lux |-> lux, level |-> level, previous |-> prev_level])
              /\ prev_level' = IF level = "assert" THEN prev_level ELSE level
    /\ UNCHANGED <<sensor_values, lux_read, agg_luxes, agg_adds, agg_average, distance_vars,
                   logger_vars, check_vars>>
    /\ UNCHANGED <<platform_vars, button_vars, since_run, lux_agg, av_result, av_request,
                   av_prev, cancel_steps, loop_vars>>

----------------------------------------------------------------------------
(* common.py: a LuxAggregator on its own *)

\* The most add() calls between two clear() calls.
MaxAdds == 3

\* The readings added: the two of scripts/test_lux_aggregator.py, and two
\* from LightSensor.read with a negative and a positive difference.
AggReadings ==
    {[outer |-> 1, inner |-> 2, avg |-> 3, diff |-> 4, diff_percent |-> 5],
     [outer |-> 3, inner |-> 4, avg |-> 5, diff |-> 6, diff_percent |-> 7],
     LuxReading(600, 300), LuxReading(301, 600)}

AggAdd ==
    /\ agg_adds < MaxAdds
    /\ \E lux \in AggReadings : agg_luxes' = add(agg_luxes, lux)
    /\ agg_adds' = agg_adds + 1
    /\ UNCHANGED <<sensor_values, lux_read, lux_level, agg_average, distance_vars, logger_vars, check_vars>>
    /\ UNCHANGED <<platform_vars, button_vars, avoider_vars, cancel_steps, loop_vars>>

\* LuxAggregator.average(): the call is kept with the readings it was made
\* over.  With no reading np.mean gives nan and int() raises ValueError:
\* nothing is returned (None).
AggAverage ==
    /\ agg_average' =
          Some([of |-> agg_luxes,
                result |-> IF len(agg_luxes) = 0 THEN None ELSE Some(average(agg_luxes))])
    /\ UNCHANGED <<sensor_values, lux_read, lux_level, agg_luxes, agg_adds, distance_vars,
                   logger_vars, check_vars>>
    /\ UNCHANGED <<platform_vars, button_vars, avoider_vars, cancel_steps, loop_vars>>

AggClear ==
    /\ agg_luxes' = clear(agg_luxes)
    /\ agg_adds' = 0
    /\ UNCHANGED <<sensor_values, lux_read, lux_level, agg_average, distance_vars, logger_vars, check_vars>>
    /\ UNCHANGED <<platform_vars, button_vars, avoider_vars, cancel_steps, loop_vars>>

----------------------------------------------------------------------------
(* input_device/ultrasonic_ranging.py *)

threshold_cm == 10

\* A distance is a float: a number of cm or float("inf").
Inf == [inf |-> TRUE, cm |-> 0]
Cm(d) == [inf |-> FALSE, cm |-> d]

\* distance < threshold for floats: inf is below no threshold.
LessThan(distance, threshold) == ~distance.inf /\ distance.cm < threshold

\* HCSR04.distance raising RuntimeError: no echo within the timeout.
TimedOut == None

\* What HCSR04.distance can give: RuntimeError, or a distance below, at or
\* beyond threshold_cm.
HardwareOutcomes ==
    {TimedOut, Some(Cm(threshold_cm - 1)), Some(Cm(threshold_cm)), Some(Cm(40 * threshold_cm))}

\* DistanceSensor.read given the outcomes hw of the hardware reads it will
\* make: the value returned, the _prev_distance left behind and the number
\* of hardware reads made.  A RuntimeError leaves _prev_distance as it was;
\* only when that is still None it is set to inf and read() is called again.
RECURSIVE read(_, _, _)
read(prev, hw, made) ==
    LET after == IF hw[1] = TimedOut THEN prev ELSE hw[1]
    IN  IF IsNone(after)
        THEN read(Some(Inf), Tail(hw), made + 1)
        ELSE [value |-> Val(after), prev_distance |-> after, reads |-> made + 1]

\* DistanceSensor.is_in_range, given what its read() returned.
is_in_range(distance) == LessThan(distance, threshold_cm)

\* The sequences of hardware outcomes a read() entered with _prev_distance
\* prev consumes entirely.
ReadOutcomes(prev) ==
    {hw \in {<<a>> : a \in HardwareOutcomes} \cup (HardwareOutcomes \X HardwareOutcomes) :
        read(prev, hw \o <<TimedOut>>, 0).reads = Len(hw)}

\* The variables of the sensor after a read() that consumed hw.
SensorRead(hw) ==
    LET r == read(prev_distance, hw, 0)
    IN  /\ prev_distance' = r.prev_distance
        /\ hw_reads' = hw
        /\ distance_read' = Some([cached |-> prev_distance, value |-> r.value])

\* A direct DistanceSensor.read() call.
DistanceRead ==
    /\ \E hw \in ReadOutcomes(prev_distance) : SensorRead(hw)
    /\ UNCHANGED <<platform_vars, button_vars, avoider_vars, cancel_steps, loop_vars>>
    /\ UNCHANGED <<lux_vars, logger_vars, check_vars>>

\* MobilePlatform.get_status with the boundary sensor behind get_region:
\* is_in_range() is called, and with it read(), only when get_region gets as
\* far as line 79.
DistanceGetStatus ==
    /\ \E force \in BOOLEAN :
          IF QueriesSensor(position, force)
          THEN \E hw \in ReadOutcomes(prev_distance) :
                  LET in_range == is_in_range(read(prev_distance, hw, 0).value)
                  IN  /\ SensorRead(hw)
                      /\ position' = GetRegionPos(position, force, in_range)
                      /\ status' = GetStatus(position, force, in_range)
                      /\ sensor' = SensorOutcome(position, force, in_range)
          ELSE /\ position' = GetRegionPos(position, force, TRUE)
               /\ status' = GetStatus(position, force, TRUE)
               /\ sensor' = SensorOutcome(position, force, TRUE)
               /\ UNCHANGED distance_vars
    /\ UNCHANGED <<pc, caller, mv_dir, mv_steps, mv_start, mv_exit>>
    /\ UNCHANGED <<button_vars, avoider_vars, cancel_steps, loop_vars>>
    /\ UNCHANGED <<lux_vars, logger_vars, check_vars>>

----------------------------------------------------------------------------
(* logger.py: LightCsvLogger *)

SecondsPerMinute == 60

\* The last timestamp given to the logger, and the most statuses given to it
\* within one minute.
MaxSeconds == 180
MaxPerMinute == 3

\* By how many seconds the timestamp of a status is past the one before.
TimeSteps == {0, 30, 60, 90}

\* The readings the statuses carry.
LoggerReadings == {LuxReading(1, 2), LuxReading(4, 4)}

IsoformatSeconds(ts) == ts

\* datetime.isoformat(timespec='minutes'): the timestamp cut down to its
\* minute.
isoformat_minutes(ts) == ts \div SecondsPerMinute

\* log_line: the three values of "{},{},{}\n".
log_line(timestamp, avg_lux) ==
    [timestamp |-> timestamp, outer |-> avg_lux.outer, inner |-> avg_lux.inner]

\* LightCsvLogger.output_status(status) for a status whose lux was read dt
\* seconds after the one before.
LoggerOutput ==
    /\ \E dt \in TimeSteps : \E lux \in LoggerReadings :
          LET ts == log_clock + dt
              timestamp == isoformat_minutes(ts)
          IN  /\ ts <= MaxSeconds
              /\ log_clock' = ts
              /\ minute_readings' =
                    IF minute_readings # <<>> /\ ts \div SecondsPerMinute = log_clock \div SecondsPerMinute
                    THEN Append(minute_readings, lux)
                    ELSE <<lux>>
              /\ Len(minute_readings') <= MaxPerMinute
              /\ IF IsNone(cur_timestamp)
                 THEN /\ cur_timestamp' = Some(timestamp)
                      /\ cur_timestamp_luxes' = add(cur_timestamp_luxes, lux)
                      /\ UNCHANGED log_lines
                 ELSE IF cur_timestamp # Some(timestamp)
                 THEN /\ len(cur_timestamp_luxes) > 0
                      /\ log_lines' =
                            Append(log_lines,
                                   log_line(Val(cur_timestamp), average(cur_timestamp_luxes)))
                      /\ cur_timestamp' = Some(timestamp)
                      /\ cur_timestamp_luxes' = add(clear(cur_timestamp_luxes), lux)
                 ELSE /\ cur_timestamp_luxes' = add(cur_timestamp_luxes, lux)
                      /\ UNCHANGED <<cur_timestamp, log_lines>>
    /\ UNCHANGED <<platform_vars, button_vars, avoider_vars, cancel_steps, loop_vars>>
    /\ UNCHANGED <<lux_vars, distance_vars, check_vars>>

----------------------------------------------------------------------------
(* Specifications *)

Init == InitPlatform /\ InitButtons /\ InitAvoider /\ InitLoopComplete /\ InitUnits /\ pc = "idle"

Next ==
    \/ HarnessGetStatus
    \/ HarnessMove
    \/ HarnessIterate
    \/ MoveStep
    \/ HarnessReturn

Spec == Init /\ [][Next]_vars

\* control_loop with the button handler as its only controller and the
\* complete debug panel, and the callbacks of the two direction buttons and
\* direct calls of toggle_hold_mode.
InitButtonsSpec ==
    /\ InitPlatform /\ InitButtons /\ InitAvoider /\ InitUnits
    /\ InitLoopOf(<<"ButtonHandler">>, {<<TRUE, TRUE>>})
    /\ pc = "tick"

NextButtons ==
    \/ Tick
    \/ ButtonIterate
    \/ MoveStep
    \/ PerformActionFinally
    \/ \E b \in Buttons : OnPress(b)
    \/ \E b \in Buttons : OnPressToggled(b)
    \/ \E b \in Buttons : OnHold(b)
    \/ \E b \in Buttons : OnRelease(b)
    \/ ToggleHoldMode
    \/ ToggleHoldModeReturns

SpecButtons == InitButtonsSpec /\ [][NextButtons]_vars

\* The button the user works in the runs of control_loop with both
\* controllers.
LoopButton == "inner"

\* control_loop with the button handler and the shadow avoider, the enable
\* button and one direction button, with every debug panel.
InitLoopSpec ==
    InitPlatform /\ InitButtons /\ InitAvoider /\ InitLoop /\ InitUnits /\ pc = "tick"

NextLoop ==
    \/ Tick
    \/ ButtonIterate
    \/ MoveStep
    \/ PerformActionFinally
    \/ AvoiderAct
    \/ AvoiderMoveCall
    \/ TimePasses
    \/ OnToggle
    \/ OnPress(LoopButton)
    \/ OnHold(LoopButton)
    \/ OnRelease(LoopButton)

SpecLoop == InitLoopSpec /\ [][NextLoop]_vars

\* ---------------------------------------------------------------------------
\* The buttons with the pin and the callback apart.  gpiozero runs when_pressed
\* in the background after the pin has changed, and _on_press reads
\* is_pressed of both buttons when it runs, not when the pin changed: a button
\* is "pressing" from its pin going down until its when_pressed has begun.
\* ---------------------------------------------------------------------------

\* Button b's pin goes down; its when_pressed is still to run.
PinDown(b) ==
    /\ ButtonState(b) = "up"
    /\ SetButton(b, "pressing")
    /\ hold_mode_before' = IF is_pressed(OtherButton(b)) THEN Some(hold_mode) ELSE None
    /\ UNCHANGED <<platform_vars, avoider_vars, loop_vars>>
    /\ UNCHANGED <<direction_commanded, hold_mode, toggling, action_result, enabled,
                   led_blinks>>
    /\ UNCHANGED <<cancel_steps, mv_checks, lux_vars, distance_vars, logger_vars>>

\* The when_pressed callback of button b runs: _on_press(b).
PressCallback(b) ==
    /\ ButtonState(b) = "pressing"
    /\ b \notin toggling
    /\ SetButton(b, "down")
    /\ PressBody(b, is_pressed("outer") /\ is_pressed("inner"))
    /\ UNCHANGED <<platform_vars, avoider_vars, action_result, enabled>>
    /\ NoteCallback
    /\ UNCHANGED <<loop_vars, unit_vars>>

\* Button b, whose when_pressed has run, goes up.
PinUp(b) == ButtonState(b) \in {"down", "held"} /\ OnRelease(b)

InitPressSpec ==
    InitPlatform /\ InitButtons /\ InitAvoider /\ InitLoopComplete /\ InitUnits /\ pc = "idle"

NextPress ==
    \/ \E b \in Buttons : PinDown(b)
    \/ \E b \in Buttons : PressCallback(b)
    \/ \E b \in Buttons : OnPressToggled(b)
    \/ \E b \in Buttons : OnHold(b)
    \/ \E b \in Buttons : PinUp(b)

SpecPress == InitPressSpec /\ [][NextPress]_vars

\* The positions the avoider takes over at: unknown as constructed, or in
\* the middle of the track or at the inner edge, where a manual move has
\* left the platform.
AvoiderPositions ==
    {None, Some(OUTER_EDGE_VALUE + RegionSize \div 2), Some(INNER_EDGE_VALUE)}

InitAvoiderSpec ==
    /\ position \in AvoiderPositions
    /\ status = NoStatus
    /\ sensor = "not_queried"
    /\ caller = "none"
    /\ mv_dir = "NONE"
    /\ mv_steps = 0
    /\ mv_start = None
    /\ mv_exit = "none"
    /\ InitButtons /\ InitAvoider /\ InitLoop /\ InitUnits /\ pc = "tick"

NextAvoider ==
    \/ Tick
    \/ TimePasses
    \/ AvoiderPerform
    \/ AvoiderMoveCall
    \/ OnToggle

SpecAvoider == InitAvoiderSpec /\ [][NextAvoider]_vars

\* The avoider taking over with the platform at the inner edge, where an
\* earlier move has left it.
InitAvoiderInnerSpec ==
    /\ position = Some(INNER_EDGE_VALUE)
    /\ status = NoStatus
    /\ sensor = "not_queried"
    /\ caller = "none"
    /\ mv_dir = "NONE"
    /\ mv_steps = 0
    /\ mv_start = None
    /\ mv_exit = "none"
    /\ InitButtons /\ InitAvoider /\ InitLoop /\ InitUnits /\ pc = "tick"

NextAvoiderInner ==
    \/ Tick
    \/ TimePasses
    \/ AvoiderPerform
    \/ AvoiderMoveCall
    \/ OnToggle

SpecAvoiderInner == InitAvoiderInnerSpec /\ [][NextAvoiderInner]_vars

\* The same with the readings of the ticks kept aside.
NextWindow ==
    \/ Tick
    \/ TimePasses
    \/ WindowPerform
    \/ AvoiderMoveCall
    \/ OnToggle

SpecWindow == InitAvoiderInnerSpec /\ [][NextWindow]_vars

InitLuxSpec ==
    /\ InitPlatform /\ InitButtons /\ InitAvoider /\ InitLoopComplete /\ InitDistance /\ InitLogger
    /\ InitChecks
    /\ InitLux
    /\ sensor_values \in SensorValues \X SensorValues
    /\ pc = "idle"

NextLux ==
    \/ LuxRead
    \/ LuxCompare

SpecLux == InitLuxSpec /\ [][NextLux]_vars

\* The avoider with the ticks' readings of uneven brightness.
NextMean ==
    \/ Tick
    \/ TimePasses
    \/ MeanPerform
    \/ AvoiderMoveCall
    \/ OnToggle

SpecMean == InitAvoiderSpec /\ [][NextMean]_vars

InitAggregatorSpec ==
    InitPlatform /\ InitButtons /\ InitAvoider /\ InitLoopComplete /\ InitUnits /\ pc = "idle"

NextAggregator ==
    \/ AggAdd
    \/ AggAverage
    \/ AggClear

SpecAggregator == InitAggregatorSpec /\ [][NextAggregator]_vars

\* The tracked positions the sensor is consulted at: unknown, the two edges
\* and one step either side of the middle.
DistancePositions ==
    {None, Some(OUTER_EDGE_VALUE), Some(OUTER_EDGE_VALUE + 1), Some(INNER_EDGE_VALUE - 1),
     Some(INNER_EDGE_VALUE)}

\* The sensor as constructed, on a platform whose position is one of the above.
InitDistanceSpec ==
    /\ position \in DistancePositions
    /\ status = NoStatus
    /\ sensor = "not_queried"
    /\ caller = "none"
    /\ mv_dir = "NONE"
    /\ mv_steps = 0
    /\ mv_start = None
    /\ mv_exit = "none"
    /\ InitButtons /\ InitAvoider /\ InitLoopComplete /\ InitUnits /\ pc = "idle"

NextDistance ==
    \/ DistanceRead
    \/ DistanceGetStatus

SpecDistance == InitDistanceSpec /\ [][NextDistance]_vars

InitChecksSpec ==
    /\ position \in CheckPositions
    /\ status = NoStatus
    /\ sensor = "not_queried"
    /\ caller = "none"
    /\ mv_dir = "NONE"
    /\ mv_steps = 0
    /\ mv_start = None
    /\ mv_exit = "none"
    /\ InitButtons /\ InitAvoider /\ InitLoopComplete /\ InitUnits /\ pc = "idle"

NextChecks ==
    \/ CheckedGetStatus
    \/ CheckedMove
    \/ CheckedIterate
    \/ MoveStep
    \/ CheckedReturn

SpecChecks == InitChecksSpec /\ [][NextChecks]_vars

InitLoggerSpec ==
    InitPlatform /\ InitButtons /\ InitAvoider /\ InitLoopComplete /\ InitUnits /\ pc = "idle"

NextLogger == LoggerOutput

SpecLogger == InitLoggerSpec /\ [][NextLogger]_vars

----------------------------------------------------------------------------
(* Properties of the platform driver, checked under Spec *)

\* ceil(TRACK_SIZE * 1.1)
CeilMaxDistance == (RegionSize * 11 + 9) \div 10

InMoveCall == pc \in {"move_top", "move_step", "move_done"}

\* The position has not been stepped since the last status read.
FreshStatus == ~(pc = "move_top" /\ mv_steps > 0)

\* The current move_direction call has read a status.
ReadInCall == InMoveCall /\ ~(pc = "move_top" /\ mv_steps = 0)

\* C1: every move_direction call leaves its loop through one of the four
\* exits, never through the trailing assertion, after at most
\* ceil(TRACK_SIZE*1.1)+1 iterations and ceil(TRACK_SIZE*1.1) motor step units.
C1_MoveTerminates ==
    /\ mv_exit # "assert"
    /\ InMoveCall => mv_steps + 1 <= CeilMaxDistance + 1
    /\ pc = "move_step" => mv_steps + 1 <= CeilMaxDistance
    /\ pc = "move_done" => mv_exit \in {"battery", "stopped", "at_edge", "max_distance"}

C1_Witness ==
    /\ pc = "move_done"
    /\ mv_exit = "max_distance"
    /\ mv_steps = max_distance

\* The case of C2: a move from a known position on the track whose predicate
\* has been true and whose boundary sensor has not reported the edge.
C2_Case ==
    /\ caller = "harness"
    /\ InMoveCall
    /\ ~IsNone(mv_start)
    /\ Val(mv_start) \in OUTER_EDGE_VALUE..INNER_EDGE_VALUE
    /\ mv_exit # "stopped"
    /\ ~(ReadInCall /\ sensor = "at_edge")

\* C2 as claimed: in such a move the tracked position, and the position and
\* region of every Status, stay within [0, TRACK_SIZE].
C2_PositionOnTrack ==
    C2_Case =>
        /\ ~IsNone(position)
        /\ Val(position) \in OUTER_EDGE_VALUE..INNER_EDGE_VALUE
        /\ ReadInCall =>
              /\ Val(status.position) \in OUTER_EDGE_VALUE..INNER_EDGE_VALUE
              /\ status.region \in {"OUTER_EDGE", "MID", "INNER_EDGE"}

\* C2 amended: in such a move the tracked position never goes above
\* TRACK_SIZE; towards INNER it is start + steps and stays on the track,
\* towards OUTER it is start - steps and so falls below 0 once the start
\* distance is used up; the region reported is never UNKNOWN.
C2_PositionBelowInnerEdge ==
    C2_Case =>
        /\ ~IsNone(position)
        /\ Val(position) <= INNER_EDGE_VALUE
        /\ mv_dir = "INNER" =>
              /\ Val(position) = Val(mv_start) + mv_steps
              /\ Val(position) >= OUTER_EDGE_VALUE
        /\ mv_dir = "OUTER" => Val(position) = Val(mv_start) - mv_steps
        /\ ReadInCall =>
              /\ Val(status.position) <= INNER_EDGE_VALUE
              /\ status.region \in {"OUTER_EDGE", "MID", "INNER_EDGE"}

C2_Witness ==
    /\ C2_Case
    /\ mv_dir = "OUTER"
    /\ pc = "move_step"
    /\ Val(position) < OUTER_EDGE_VALUE
    /\ status.region = "MID"

\* C3: an iteration of move_direction whose voltage reading is present and
\* below the cutoff ends the call with a battery fault and commands no motor
\* step unit, so on the first iteration none at all has been commanded.
C3_LowVoltageAborts ==
    [][\A v \in VoltageReadings : \A in_range \in BOOLEAN : \A cont \in BOOLEAN :
          (/\ ~IsNone(v)
           /\ Val(v) < MOTOR_VOLTAGE_CUTOFF
           /\ MoveIterate(v, in_range, cont))
          => (/\ pc' = "move_done"
              /\ mv_exit' = "battery"
              /\ mv_steps' = mv_steps)]_vars

C3_Witness ==
    /\ pc = "move_done"
    /\ mv_exit = "battery"
    /\ mv_steps = 0

\* C4: for a known position in [0, TRACK_SIZE] get_region returns INNER_EDGE
\* iff the position is TRACK_SIZE, whatever the sensor and force_check.
C4_InnerEdgeIffTrackSize ==
    (/\ ~IsNone(status.position)
     /\ Val(status.position) \in OUTER_EDGE_VALUE..INNER_EDGE_VALUE)
    => (status.region = "INNER_EDGE" <=> Val(status.position) = INNER_EDGE_VALUE)

C4_Witness ==
    /\ pc = "idle"
    /\ status.position = Some(INNER_EDGE_VALUE)
    /\ status.region = "INNER_EDGE"

\* C5: a get_region that queries the boundary sensor and is told "at edge"
\* leaves position = 0 and returns OUTER_EDGE, whatever the position was.
C5_ResyncAtOuterEdge ==
    (FreshStatus /\ sensor = "at_edge")
    => (position = Some(OUTER_EDGE_VALUE) /\ status.region = "OUTER_EDGE")

\* get_region(force_check=True) from position None, told "at edge".
C5_Witness ==
    /\ pc = "move_done"
    /\ mv_dir = "OUTER"
    /\ sensor = "at_edge"
    /\ IsNone(status.position)
    /\ position = Some(OUTER_EDGE_VALUE)

\* C6: the tracked position changes only by +1 (INNER) or -1 (OUTER) with a
\* commanded motor step unit, or to 0 by the boundary resync; a motor step
\* unit leaves an unknown position unknown.
C6_PositionWrites ==
    [][/\ position' # position =>
          \/ /\ pc = "move_step"
             /\ mv_steps' = mv_steps + 1
             /\ ~IsNone(position)
             /\ ~IsNone(position')
             /\ \/ mv_dir = "INNER" /\ Val(position') = Val(position) + 1
                \/ mv_dir = "OUTER" /\ Val(position') = Val(position) - 1
          \/ /\ pc # "move_step"
             /\ sensor' = "at_edge"
             /\ position' = Some(OUTER_EDGE_VALUE)
       /\ (pc = "move_step" /\ IsNone(position)) => IsNone(position')]_vars

C6_Witness ==
    /\ pc = "move_top"
    /\ mv_dir = "OUTER"
    /\ mv_steps = 2
    /\ ~IsNone(mv_start)
    /\ position = Some(Val(mv_start) - 2)

\* C7 as claimed: after a get_region call OUTER_EDGE is returned iff
\* position = 0, INNER_EDGE iff position = TRACK_SIZE, and MID only for a
\* known position strictly between the two.
C7_RegionAgreesWithPosition ==
    FreshStatus =>
        /\ status.region = "OUTER_EDGE" <=> position = Some(OUTER_EDGE_VALUE)
        /\ status.region = "INNER_EDGE" <=> position = Some(INNER_EDGE_VALUE)
        /\ status.region = "MID" =>
              /\ ~IsNone(position)
              /\ Val(position) > OUTER_EDGE_VALUE
              /\ Val(position) < INNER_EDGE_VALUE

\* C7 amended: after a get_region call INNER_EDGE is returned iff
\* position = TRACK_SIZE, UNKNOWN iff the position is unknown, OUTER_EDGE
\* only if position = 0, and position = 0 gives OUTER_EDGE unless the sensor
\* was queried and reported "not at edge"; MID is returned for every other
\* known position, which includes 0 and positions below 0.
C7_RegionFollowsSensor ==
    FreshStatus =>
        /\ status.region = "OUTER_EDGE" => position = Some(OUTER_EDGE_VALUE)
        /\ (position = Some(OUTER_EDGE_VALUE) /\ sensor # "in_range")
              => status.region = "OUTER_EDGE"
        /\ status.region = "INNER_EDGE" <=> position = Some(INNER_EDGE_VALUE)
        /\ status.region = "UNKNOWN" <=> IsNone(position)
        /\ status.region = "MID" =>
              /\ ~IsNone(position)
              /\ Val(position) < INNER_EDGE_VALUE
              /\ Val(position) = OUTER_EDGE_VALUE => sensor = "in_range"

C7_Witness ==
    /\ pc = "idle"
    /\ position = Some(OUTER_EDGE_VALUE)
    /\ sensor = "in_range"
    /\ status.region = "MID"

\* C8: once the position is set it is never unset, and UNKNOWN is reported
\* only while the position is still unset.
C8_UnknownOnlyBeforeConfirmation ==
    /\ [](status.region = "UNKNOWN" => IsNone(position))
    /\ [][~IsNone(position) => ~IsNone(position')]_vars

\* A status read after the first confirmation, at a position drifted below
\* the outer edge with the sensor reporting "not at edge": MID, not UNKNOWN.
C8_Witness ==
    /\ pc = "idle"
    /\ ~IsNone(status.position)
    /\ Val(status.position) < OUTER_EDGE_VALUE
    /\ sensor = "in_range"
    /\ status.region = "MID"

----------------------------------------------------------------------------
(* Properties of the controllers, checked under SpecButtons *)

\* What the continuation predicate of the move in progress has to find:
\* the command of the manual move still in place.
CommandStands == direction_commanded = mv_dir

\* C9 as claimed: once a callback has changed what the predicate of the move
\* in progress reads, at most one further motor step unit is commanded
\* before the call returns.
C9_OneStepAfterCallback == cancel_steps <= 1

\* C9 amended: when the predicate is polled while direction_commanded is not
\* the direction of the manual move the call returns without another motor
\* step unit, and
\* polls are one motor step unit apart: a change still in place at the next
\* poll lets at most one further unit through.
C9_StopsAtNextPoll ==
    [][/\ (MoveInProgress /\ pc = "move_top" /\ pc' # pc /\ ~CommandStands)
          => (pc' = "move_done" /\ mv_steps' = mv_steps)
       /\ (MoveInProgress /\ pc = "move_step" /\ pc' # pc)
          => (pc' = "move_top" /\ mv_steps' = mv_steps + 1)]_vars

C9_Witness ==
    /\ pc = "move_done"
    /\ caller = "button"
    /\ mv_exit = "stopped"
    /\ cancel_steps = 1
    /\ hold_mode
    /\ mv_steps < max_distance

\* The step of control_loop that starts a tick: it reads the Status and calls
\* ButtonHandler.perform_action.
TickStep ==
    /\ pc = "tick"
    /\ <<pc, tick_log, action_result, status>>' # <<pc, tick_log, action_result, status>>

\* C10: perform_action with a commanded direction enters move_direction once
\* with that direction and leaves direction_commanded = None however the
\* call ended; with no commanded direction it returns False and commands no
\* motor step.
C10_CommandClearedAfterMove ==
    [][/\ (TickStep /\ direction_commanded # "NONE")
          => (pc' = "move_top" /\ caller' = "button" /\ mv_dir' = direction_commanded)
       /\ (TickStep /\ direction_commanded = "NONE")
          => (/\ pc' = "tick"
              /\ action_result' = "False"
              /\ tick_log' = <<[controller |-> "ButtonHandler", status |-> status',
                                result |-> "False"]>>
              /\ caller' = "none"
              /\ mv_steps' = mv_steps)
       /\ (pc = "move_done" /\ caller = "button" /\ pc' # pc)
          => (/\ direction_commanded' = "NONE"
              /\ pc' = "tick"
              /\ action_result' = IF mv_exit = "battery" THEN "BatteryError" ELSE "True")]_vars

C10_Witness ==
    /\ pc = "tick"
    /\ action_result = "BatteryError"
    /\ direction_commanded = "NONE"
    /\ ~hold_mode

----------------------------------------------------------------------------
(* Properties of the button callbacks, checked under SpecButtons *)

\* The step is button b going down (when_pressed runs).
PressEvent(b) == ButtonState(b) = "up" /\ ButtonState(b)' = "down"

\* The step is button b having been down for hold_time (when_held runs).
HoldEvent(b) == ButtonState(b) = "down" /\ ButtonState(b)' = "held"

\* The step is button b going up (when_released runs).
ReleaseEvent(b) == ButtonState(b) # "up" /\ ButtonState(b)' = "up"

\* C11: in hold mode a hold event with the other button up commands that
\* button's direction, a hold event with both buttons pressed changes
\* nothing, a release clears the command, and a single-button press leaves
\* the command (and the mode) as it is.
C11_HoldModeEvents ==
    [][hold_mode => \A b \in Buttons :
          /\ (HoldEvent(b) /\ ~is_pressed(OtherButton(b)))
                => direction_commanded' = corresponding_direction(b)
          /\ (HoldEvent(b) /\ is_pressed(OtherButton(b)))
                => direction_commanded' = direction_commanded
          /\ ReleaseEvent(b) => direction_commanded' = "NONE"
          /\ (PressEvent(b) /\ ~is_pressed(OtherButton(b)))
                => (direction_commanded' = direction_commanded /\ hold_mode')]_vars

\* Hold mode: the inner button is held alone and its manual move runs.
C11_Witness ==
    /\ hold_mode
    /\ outer_button = "up"
    /\ inner_button = "held"
    /\ direction_commanded = "INNER"
    /\ caller = "button"
    /\ mv_dir = "INNER"
    /\ pc = "move_step"

\* C12: in press mode a single-button press commands that button's direction
\* when nothing is commanded and clears the command when one is; hold and
\* release events change nothing, so during a manual move only a press
\* changes the command.
C12_PressModeEvents ==
    [][~hold_mode =>
          /\ \A b \in Buttons :
                /\ (PressEvent(b) /\ ~is_pressed(OtherButton(b))
                       /\ direction_commanded = "NONE")
                      => direction_commanded' = corresponding_direction(b)
                /\ (PressEvent(b) /\ ~is_pressed(OtherButton(b))
                       /\ direction_commanded # "NONE")
                      => direction_commanded' = "NONE"
                /\ (HoldEvent(b) \/ ReleaseEvent(b))
                      => (direction_commanded' = direction_commanded /\ ~hold_mode')
          /\ (MoveInProgress /\ MoveInProgress' /\ caller = "button"
                /\ direction_commanded' # direction_commanded)
                => \E b \in Buttons : PressEvent(b)]_vars

\* Press mode: the move started by a press goes on with both buttons up.
C12_Witness ==
    /\ ~hold_mode
    /\ led_blinks = <<>>
    /\ caller = "button"
    /\ pc = "move_step"
    /\ mv_steps >= 1
    /\ outer_button = "up"
    /\ inner_button = "up"
    /\ direction_commanded = mv_dir

\* C13: a press callback that finds both buttons pressed flips hold_mode and
\* sets direction_commanded to None, in either mode.
C13_BothPressTogglesMode ==
    [][\A b \in Buttons :
          /\ (PressEvent(b) /\ is_pressed(OtherButton(b)))
                => (direction_commanded' = "NONE" /\ b \in toggling')
          /\ (b \in toggling /\ b \notin toggling')
                => (hold_mode' = ~hold_mode /\ direction_commanded' = direction_commanded)]_vars

\* A both-button press has cancelled the command of a manual move in flight
\* and switched from press mode to hold mode.
C13_Witness ==
    /\ hold_mode
    /\ outer_button = "down"
    /\ inner_button = "down"
    /\ caller = "button"
    /\ MoveInProgress
    /\ cancel_steps = 0
    /\ direction_commanded = "NONE"

\* C14: each toggle of hold_mode is acknowledged by exactly 3 on/off blinks
\* of the direction LEDs.
C14_ThreeBlinkAck ==
    [][(\E b \in Buttons : b \in toggling /\ b \notin toggling') =>
          led_blinks' = blink_calls(3)]_vars

\* C15: as long as no both-button press has happened the handler is in hold
\* mode, and a direction is commanded only while a button is held.
C15_StartsInHoldMode ==
    led_blinks = <<>> =>
        /\ hold_mode
        /\ direction_commanded # "NONE" => \E b \in Buttons : ButtonState(b) = "held"

----------------------------------------------------------------------------
(* Properties of the shadow avoider, checked under SpecAvoider *)

\* The step in which perform_action evaluates with the avoider enabled and
\* platform.get_region() giving a region other than UNKNOWN.
TableEvaluation ==
    /\ pc = "next_controller"
    /\ pc' # "next_controller"
    /\ evaluation_due(since_run)
    /\ enabled
    /\ ~IsNone(position')

\* The transition table of the specification.
TableOfSpec(previous_level, level) ==
    CASE level = "DARK" -> "INNER"
      [] level = "OUTER_BRIGHTER" -> "OUTER"
      [] level = "INNER_BRIGHTER" -> "INNER"
      [] level = "BRIGHT" /\ previous_level \in {"INNER_BRIGHTER", "DARK", "DIM"} -> "OUTER"
      [] OTHER -> "NONE"

\* C16: on an evaluation with the avoider enabled and the position known the
\* direction of the requested move is that of the table for (previous level,
\* classified level): _move requests it from move_direction unless the
\* platform is at that edge already, and no move is requested where the table
\* lists none.
C16_MoveFollowsTable ==
    [][TableEvaluation =>
          LET direction == TableOfSpec(prev_level, prev_level')
          IN  /\ prev_level' \in LightLevels
              /\ av_request' = IF direction = "NONE" \/ already_at_edge(direction, status.region)
                               THEN "NONE"
                               ELSE direction
              /\ av_request' = "NONE" => (av_result' = "True" /\ pc' = "tick")]_vars

\* At the inner edge, where the move towards INNER that INNER_BRIGHTER asks
\* for was skipped, the next evaluation has classified BRIGHT and requested
\* the move towards OUTER: _move waits in _notify().
C16_Witness ==
    /\ pc = "notify"
    /\ av_prev = "INNER_BRIGHTER"
    /\ prev_level = "BRIGHT"
    /\ av_request = "OUTER"
    /\ status.region = "INNER_EDGE"

\* The step in which control_loop calls ShadowAvoider.perform_action: it runs
\* to its return or, when it requests a move, into _notify().
PerformActionStep == pc = "next_controller" /\ pc' # "next_controller"

\* The step in which _move, _notify() returning, calls move_direction and the
\* evaluation that requested the move ends.
MoveCallStep == pc = "notify" /\ pc' # "notify"

\* C17: every evaluation that requests a move of the platform ends with
\* previous_level = None, the move made: previous_level = INNER_BRIGHTER
\* followed by a classified BRIGHT issues one move towards OUTER and then
\* previous_level is None.
C17_MoveClearsPreviousLevel ==
    [][MoveCallStep => (prev_level' = "NONE" /\ av_result' = "True")]_vars

\* perform_action evaluates in this step: the aggregate is popped, the level
\* classified or a move requested.
EvaluatesInStep ==
    \/ lux_agg' = <<>>
    \/ prev_level' # prev_level
    \/ av_request' # "NONE"

\* C18: perform_action evaluates only when at least run_interval_secs have
\* passed since the end of the previous evaluation; on every other tick it
\* adds the reading of the tick to the aggregator and returns False, with no
\* move requested and previous_level and the position unchanged.  The time
\* of the last evaluation is set when the evaluation ends: at once, or after
\* the move_direction call when it requested a move.
C18_EvaluatesOnlyWhenDue ==
    [][/\ MoveCallStep => (since_run >= run_interval_secs /\ since_run' = 0)
       /\ PerformActionStep =>
          IF since_run >= run_interval_secs
          THEN lux_agg' = <<>> /\ (pc' # "notify" => since_run' = 0)
          ELSE /\ ~EvaluatesInStep
               /\ Len(lux_agg') = Len(lux_agg) + 1
               /\ SubSeq(lux_agg', 1, Len(lux_agg)) = lux_agg
               /\ lux_agg'[Len(lux_agg')] \in LuxReadings
               /\ av_result' = "False"
               /\ pc' = "tick"
               /\ prev_level' = prev_level
               /\ position' = position
               /\ since_run' = since_run]_vars

\* Two ticks have added their readings since the last evaluation, which
\* classified the light as DIM.
C18_Witness ==
    /\ pc = "tick"
    /\ Len(lux_agg) = 2
    /\ av_result = "False"
    /\ since_run < run_interval_secs
    /\ prev_level = "DIM"
    /\ enabled

\* C19: an evaluation with the enable flag off requests no move, returns
\* False and leaves previous_level and the tracked position as they were.
C19_DisabledDoesNothing ==
    [][(PerformActionStep /\ since_run >= run_interval_secs /\ ~enabled) =>
          /\ av_result' = "False"
          /\ av_request' = "NONE"
          /\ pc' = "tick"
          /\ prev_level' = prev_level
          /\ position' = position
          /\ sensor' = sensor
          /\ status' = status]_vars

\* An evaluation has just returned False with the flag off, the position
\* known and a previous level recorded.
C19_Witness ==
    /\ pc = "tick"
    /\ ~enabled
    /\ av_result = "False"
    /\ since_run = 0
    /\ lux_agg = <<>>
    /\ prev_level = "BRIGHT"
    /\ ~IsNone(position)

\* The evaluation step with the avoider enabled and platform.get_region()
\* giving UNKNOWN.
UnknownEvaluation ==
    /\ PerformActionStep
    /\ since_run >= run_interval_secs
    /\ enabled
    /\ IsNone(position')

\* C20: with the avoider enabled and the region UNKNOWN the evaluation
\* requests the move towards OUTER first and claims the tick: it returns
\* True to control_loop, having compared the averages and moved back
\* towards INNER if and only if the light got worse.
C20_InitThenRollback ==
    [][/\ UnknownEvaluation =>
          /\ av_request' \in {"OUTER", "INNER"}
          /\ pc' \in {"notify", "tick"}
       /\ (MoveCallStep /\ IsNone(position)) =>
          /\ av_result' = "True"
          /\ pc' = "tick"]_vars

----------------------------------------------------------------------------
(* Properties of control_loop, checked under SpecLoop *)

\* C22: in a tick the controllers are called in list order, each with the
\* Status snapshot of the tick, a controller only after every earlier one
\* has returned False; the tick ends with the first that does not return
\* False, or after all of them have been called.
C22_PriorityOrder ==
    LET n == Len(tick_log)
    IN  /\ n <= Len(controllers)
        /\ \A i \in 1..n :
              /\ tick_log[i].controller = controllers[i]
              /\ tick_log[i].status = tick_log[1].status
              /\ i < n => tick_log[i].result = "False"
        /\ pc = "next_controller" => n = 1 /\ tick_log[1].status = status
        /\ pc = "notify" =>
              /\ tick_log[n].controller = "ShadowAvoider"
              /\ tick_log[n].result = "running"
        /\ (pc = "tick" /\ n > 0) =>
              /\ tick_log[n].result # "running"
              /\ tick_log[n].result = "False" => n = Len(controllers)

\* Both controllers have been called in the tick with the snapshot that has
\* the region UNKNOWN; the second one has found the edge and claimed the tick.
C22_Witness ==
    /\ pc = "tick"
    /\ Len(tick_log) = 2
    /\ tick_log[2].result = "True"
    /\ tick_log[2].status.region = "UNKNOWN"
    /\ position = Some(OUTER_EDGE_VALUE)

\* A call of the tick has ended with a BatteryError.
FaultInTick == \E i \in 1..Len(tick_log) : tick_log[i].result = "BatteryError"

\* C23 as claimed: a BatteryError raised by a controller ends the calls of
\* the tick, is reported by exactly one output_error("BATT"), and leaves the
\* loop at the start of its next tick with the tracked position as the move
\* left it: the fault never ends control_loop.
C23_FaultEndsTickOnly ==
    /\ [](IF FaultInTick
          THEN /\ tick_log[Len(tick_log)].result = "BatteryError"
               /\ error_out = <<"BATT">>
               /\ pc = "tick"
               /\ ENABLED Tick
          ELSE error_out = <<>>)
    /\ [][(FaultInTick' /\ ~FaultInTick) => position' = position /\ pc' = "tick"]_vars

----------------------------------------------------------------------------
(* Properties of the light readings and the classifier, checked under SpecLux *)

\* The classification of the specification for the three values it reads.
Classify(outer, inner, diff_percent) ==
    LET intensity == IF outer >= inner THEN outer ELSE inner
        magnitude == IF diff_percent < 0 THEN -diff_percent ELSE diff_percent
    IN  CASE intensity < dim_lux_threshold -> "DARK"
          [] intensity >= dim_lux_threshold /\ magnitude >= DIFF_PERCENT_CUTOFF
             /\ outer > inner -> "OUTER_BRIGHTER"
          [] intensity >= dim_lux_threshold /\ magnitude >= DIFF_PERCENT_CUTOFF
             /\ inner > outer -> "INNER_BRIGHTER"
          [] intensity >= dim_lux_threshold /\ magnitude >= DIFF_PERCENT_CUTOFF
             /\ inner = outer -> "assert"
          [] intensity >= dim_lux_threshold /\ magnitude < DIFF_PERCENT_CUTOFF
             /\ intensity < bright_lux_threshold -> "DIM"
          [] OTHER -> "BRIGHT"

\* C24: the level _lux_compare returns is the one the thresholds give for
\* (outer, inner, diff_percent) of its argument, whatever was classified
\* before and whatever previous_level is; with outer = inner and the cutoff
\* met no level is returned (the assertion).
C24_ClassifyByThresholds ==
    ~IsNone(lux_level) =>
        LET call == Val(lux_level)
        IN  call.level = Classify(call.lux.outer, call.lux.inner, call.lux.diff_percent)

\* A reading at the bright threshold with the outer sensor brighter by the
\* cutoff is classified OUTER_BRIGHTER although the level before was DARK.
C24_Witness ==
    /\ ~IsNone(lux_level)
    /\ Val(lux_level).level = "OUTER_BRIGHTER"
    /\ Val(lux_level).previous = "DARK"
    /\ Val(lux_level).lux.outer = bright_lux_threshold
    /\ Val(lux_level).lux.diff_percent = -DIFF_PERCENT_CUTOFF

\* n / d rounded to the nearest integer, halves to the even one, for d > 0.
RoundDiv(n, d) ==
    LET floor == n \div d
        twice == 2 * (n % d)
    IN  IF twice < d THEN floor
        ELSE IF twice > d THEN floor + 1
        ELSE IF floor % 2 = 0 THEN floor ELSE floor + 1

\* C25: a LuxReading made from the sensor values outer and inner has
\* diff = inner - outer, avg their integer mean, and diff_percent =
\* round(100 * (inner - outer) / avg) when avg > 0, else 0.
C25_DiffPercentRounded ==
    ~IsNone(lux_read) =>
        LET outer == sensor_values[1]
            inner == sensor_values[2]
            lux == Val(lux_read)
        IN  /\ lux.outer = outer /\ lux.inner = inner
            /\ lux.diff = inner - outer
            /\ lux.avg = (outer + inner) \div 2
            /\ lux.diff_percent =
                  IF lux.avg > 0 THEN RoundDiv(100 * (inner - outer), lux.avg) ELSE 0

----------------------------------------------------------------------------
(* Properties of the LuxAggregator, checked under SpecAggregator *)

RECURSIVE FieldSum(_, _)
\* The sum of a field over the readings.
FieldSum(readings, field) ==
    IF readings = <<>> THEN 0
    ELSE readings[1][field] + FieldSum(SubSeq(readings, 2, Len(readings)), field)

\* An average() call over one reading or more.
AveragedSome == ~IsNone(agg_average) /\ Val(agg_average).of # <<>>

\* C26 as claimed: every field of the average is the exact arithmetic mean
\* of that field over the readings added since the last clear.
C26_AverageExactMean ==
    AveragedSome =>
        LET call == Val(agg_average)
        IN  \A field \in LuxFields :
               Val(call.result)[field] * Len(call.of) = FieldSum(call.of, field)

\* C26: every field of the average is the arithmetic mean of that field over
\* the readings added since the last clear with its fraction dropped
\* (towards zero), hence the exact mean whenever that is whole.
C26_AverageTruncatedMean ==
    AveragedSome =>
        LET call == Val(agg_average)
            n == Len(call.of)
        IN  \A field \in LuxFields :
               LET sum == FieldSum(call.of, field)
                   mean == Val(call.result)[field]
               IN  IF sum >= 0 THEN mean * n <= sum /\ sum < (mean + 1) * n
                   ELSE (mean - 1) * n < sum /\ sum <= mean * n

\* The diff_percent values -66 and 5 have been averaged to -30.
C26_Witness ==
    /\ AveragedSome
    /\ Len(Val(agg_average).of) = 2
    /\ FieldSum(Val(agg_average).of, "diff_percent") = -61
    /\ Val(Val(agg_average).result).diff_percent = -30
    /\ Val(Val(agg_average).result).outer = 300

\* C27: the length of the aggregator is the number of add() calls since its
\* construction or its last clear(), and average() leaves it unchanged.
C27_LengthCountsAdds ==
    /\ [](len(agg_luxes) = agg_adds)
    /\ [][agg_average' # agg_average => agg_luxes' = agg_luxes]_vars

\* average() has been called after two adds and the length is still 2.
C27_Witness ==
    /\ agg_adds = 2
    /\ len(agg_luxes) = 2
    /\ ~IsNone(agg_average)
    /\ Val(agg_average).of = agg_luxes

----------------------------------------------------------------------------
(* Properties of the boundary sensor, checked under SpecDistance *)

\* C28 as claimed: a read() whose hardware read times out makes exactly one
\* more hardware read and, if that times out too, returns the distance that
\* was cached when it was entered, +infinity if there was none; a read()
\* whose hardware read answers returns that answer.
C28_RetriesOnceThenCached ==
    ~IsNone(distance_read) =>
        LET call == Val(distance_read)
        IN  IF hw_reads[1] # TimedOut
            THEN Len(hw_reads) = 1 /\ call.value = Val(hw_reads[1])
            ELSE /\ Len(hw_reads) = 2
                 /\ call.value =
                       IF hw_reads[2] # TimedOut THEN Val(hw_reads[2])
                       ELSE IF IsNone(call.cached) THEN Inf
                       ELSE Val(call.cached)

\* A get_status step whose get_region asked the sensor, the hardware read
\* timed out and read() returned the infinite distance.
DegradedQuery ==
    /\ DistanceGetStatus
    /\ sensor' # "not_queried"
    /\ hw_reads'[Len(hw_reads')] = TimedOut
    /\ Val(distance_read').value = Inf

\* C29 as claimed: a get_region whose distance read degraded to the infinite
\* distance does not return OUTER_EDGE and leaves the position as it was.
C29_InfiniteIsNotAtEdge ==
    [][DegradedQuery => status'.region # "OUTER_EDGE" /\ position' = position]_vars

----------------------------------------------------------------------------
(* Properties of the csv logger, checked under SpecLogger *)

\* The minute a timestamp in seconds lies in.
MinuteOf(ts) == ts \div SecondsPerMinute

\* mean is the arithmetic mean of the field over the readings, cut to an
\* integer (lux values are not negative).
IsIntegerMean(mean, readings, field) ==
    LET sum == FieldSum(readings, field)
        n == Len(readings)
    IN  n > 0 /\ mean * n <= sum /\ sum < (mean + 1) * n

\* The step wrote exactly one line: that of the minute of the status before,
\* with the integer means of the readings received in that minute.
WroteLineOfFinishedMinute ==
    /\ Len(log_lines') = Len(log_lines) + 1
    /\ SubSeq(log_lines', 1, Len(log_lines)) = log_lines
    /\ LET line == log_lines'[Len(log_lines')]
       IN  /\ line.timestamp = MinuteOf(log_clock)
           /\ IsIntegerMean(line.outer, minute_readings, "outer")
           /\ IsIntegerMean(line.inner, minute_readings, "inner")

\* C30: with timestamps that never decrease, output_status writes one line
\* exactly when the minute of its status differs from the minute of the
\* status before, the line carrying that earlier minute and the integer mean
\* outer and inner lux of the readings received in it; otherwise it writes
\* nothing, and no two lines written carry the same minute.
C30_OneLinePerMinute ==
    /\ [][IF minute_readings # <<>> /\ MinuteOf(log_clock') # MinuteOf(log_clock)
          THEN WroteLineOfFinishedMinute
          ELSE log_lines' = log_lines]_vars
    /\ [](\A i, j \in 1..Len(log_lines) :
             i # j => log_lines[i].timestamp # log_lines[j].timestamp)

\* Two lines have been written: minute 0 with the readings (1, 2) and (4, 4)
\* averaged to 2 and 3, then minute 2, no status having come in minute 1.
C30_Witness ==
    /\ Len(log_lines) = 2
    /\ log_lines[1] = [timestamp |-> 0, outer |-> 2, inner |-> 3]
    /\ log_lines[2].timestamp = 2
    /\ MinuteOf(log_clock) = 3

----------------------------------------------------------------------------
(* Properties of one iteration of move_direction, checked under SpecChecks *)

\* An iteration of the loop has just read its Status and taken its branch.
IterationDone == pc \in {"move_step", "move_done"} /\ ~IsNone(mv_checks)

\* C31: an iteration signals the battery fault iff the voltage read is low,
\* whatever the predicate and the region; failing that it stops iff the
\* predicate is false, whatever the region; failing that it ends at the edge
\* iff the region just read is the extreme edge of the direction; failing
\* that it ends iff max_distance units have been commanded; and it commands
\* a motor step unit iff none of the four applies.  No step unit is commanded
\* in any other way.
C31_ChecksInOrder ==
    /\ [](IterationDone =>
            LET v == Val(mv_checks).motor_voltage
                low == v # None /\ Val(v) < MOTOR_VOLTAGE_CUTOFF
                cont == Val(mv_checks).cont
                at_edge == status.region = extreme_edge(mv_dir)
                far == mv_steps = max_distance
            IN  /\ (mv_exit = "battery") = low
                /\ (mv_exit = "stopped") = (~low /\ ~cont)
                /\ (mv_exit = "at_edge") = (~low /\ cont /\ at_edge)
                /\ (mv_exit = "max_distance") = (~low /\ cont /\ ~at_edge /\ far)
                /\ (mv_exit = "step") = (~low /\ cont /\ ~at_edge /\ ~far)
                /\ (pc = "move_step") = (mv_exit = "step"))
    /\ [][mv_steps' = mv_steps + 1 => pc = "move_step" /\ mv_exit = "step"]_vars

\* A low voltage has raised the battery fault in an iteration whose predicate
\* is false and whose Status is at the extreme edge of the direction.
C31_Witness ==
    /\ IterationDone
    /\ mv_exit = "battery"
    /\ ~Val(mv_checks).cont
    /\ status.region = extreme_edge(mv_dir)
    /\ mv_steps > 0

\* A step that reads a Status: the read of a tick, or an iteration of
\* move_direction.
StatusRead == CheckedGetStatus \/ CheckedIterate

\* The read is made by an iteration of a move towards OUTER.
ReadMovingOuter == pc = "move_top" /\ mv_dir = "OUTER"

\* C32: a status read queries the boundary sensor only if the position is
\* None or the read is made by a move towards OUTER; with a known position,
\* the read of a tick and the reads of a move towards INNER leave the sensor
\* alone and the position as it is; and at position TRACK_SIZE neither is
\* touched even by a move towards OUTER, whose reads force the check.
C32_SensorOnlyWhenNeeded ==
    [][StatusRead =>
          /\ sensor' # "not_queried" => IsNone(position) \/ ReadMovingOuter
          /\ ~IsNone(position) /\ ~ReadMovingOuter =>
                sensor' = "not_queried" /\ position' = position
          /\ position = Some(INNER_EDGE_VALUE) =>
                sensor' = "not_queried" /\ position' = position]_vars

\* An iteration of a move towards OUTER has read its Status at position
\* TRACK_SIZE without querying the sensor, and goes on to step.
C32_Witness ==
    /\ IterationDone
    /\ mv_dir = "OUTER"
    /\ status.position = Some(INNER_EDGE_VALUE)
    /\ position = Some(INNER_EDGE_VALUE)
    /\ sensor = "not_queried"
    /\ mv_exit = "step"

----------------------------------------------------------------------------
(* Properties of the shadow avoider at the inner edge, checked under SpecAvoiderInner *)

\* An evaluation whose table asks for a move towards the edge the Status of
\* the tick has the platform at.
SkippedMove ==
    /\ TableEvaluation
    /\ LET direction == TableOfSpec(prev_level, prev_level')
       IN  direction # "NONE" /\ status.region = extreme_edge(direction)

\* C33: when the direction chosen leads to the edge the platform is at, the
\* evaluation ends at once: _move makes no notification and no
\* move_direction call, no step is taken, the position stays, and
\* previous_level is left at the level just classified.  So BRIGHT after DARK
\* at the inner edge requests the move towards OUTER.  The LEDs are blinked
\* by a _notify() that returns and by nothing else, and that is never the
\* step of a skipped move.
C33_SkipAtEdge ==
    /\ [][SkippedMove =>
             /\ pc' = "tick"
             /\ av_result' = "True"
             /\ av_request' = "NONE"
             /\ caller' = "none"
             /\ mv_steps' = 0
             /\ led_blinks' = led_blinks
             /\ position' = position
             /\ prev_level' \in LightLevels
             /\ \E reading \in LuxReadings :
                   prev_level' = lux_compare(average(Append(lux_agg, reading)))]_vars
    /\ [][(TableEvaluation /\ status.region = "INNER_EDGE"
              /\ prev_level = "DARK" /\ prev_level' = "BRIGHT") =>
             av_request' = "OUTER"]_vars
    /\ [][led_blinks' # led_blinks => (MoveCallStep /\ ~buzzer /\ ~SkippedMove)]_vars

\* The evaluation that has just ended classified DARK at the inner edge and
\* skipped the move towards INNER.
C33_Witness ==
    /\ pc = "tick"
    /\ av_result = "True"
    /\ since_run = 0
    /\ prev_level = "DARK"
    /\ status.region = "INNER_EDGE"
    /\ position = Some(INNER_EDGE_VALUE)
    /\ av_request = "NONE"

----------------------------------------------------------------------------
(* Properties of the avoider's aggregation window, checked under SpecWindow *)

\* perform_action evaluates in this step.
EvaluationStep == PerformActionStep /\ evaluation_due(since_run)

\* C34: the aggregator holds exactly the readings of the ticks on which
\* perform_action was called since the evaluation before, whether the
\* avoider was enabled on them or not; an evaluation averages these, the
\* reading of its own tick included and so at least one, classifies that
\* average when the avoider is enabled, and leaves the aggregator empty.
C34_WindowAveragedAndCleared ==
    /\ [](lux_agg = IF agg_adds = 0 THEN <<>> ELSE agg_luxes)
    /\ [][EvaluationStep =>
             /\ agg_luxes' = Append(lux_agg, agg_luxes'[Len(agg_luxes')])
             /\ lux_agg' = <<>>
             /\ enabled => prev_level' = lux_compare(average(agg_luxes'))]_vars

\* An evaluation has just averaged the readings of three ticks, not all the
\* same, and the aggregator is empty.
C34_Witness ==
    /\ pc = "tick"
    /\ av_result = "True"
    /\ agg_adds = 0
    /\ Len(agg_luxes) = 3
    /\ agg_luxes[1] # agg_luxes[3]
    /\ lux_agg = <<>>
    /\ prev_level = lux_compare(average(agg_luxes))

----------------------------------------------------------------------------
(* Properties of the button handler under interleaving, checked under SpecButtons *)

\* The finally clause of ButtonHandler.perform_action runs in this step.
CleanupStep == pc = "move_done" /\ caller = "button" /\ pc' # "move_done"

\* direction_commanded holds a command that a callback wrote after
\* perform_action read the one it passed to move_direction.
WrittenDuringMove ==
    /\ direction_commanded # "NONE"
    /\ direction_commanded # mv_dir \/ cancel_steps >= 0

\* C35 as claimed: the cleanup of a move does not discard a command that a
\* callback wrote while the move was running; the command stays for the next
\* perform_action or for a callback to clear.
C35_CommandNeverLost ==
    [][CleanupStep /\ WrittenDuringMove => direction_commanded' = direction_commanded]_vars

\* ---------------------------------------------------------------------------
\* C36: one simultaneous press of both buttons flips hold_mode exactly once:
\* whatever the interleaving of the two press callbacks with each other and
\* with the buttons' pressed state, hold_mode after both callbacks have run is
\* the negation of its value before the press.
\* ---------------------------------------------------------------------------

\* Both buttons are down and the when_pressed of each has returned.
BothCallbacksRan ==
    /\ outer_button \in {"down", "held"}
    /\ inner_button \in {"down", "held"}
    /\ toggling = {}
    /\ ~IsNone(hold_mode_before)

C36_FlipsExactlyOnce == BothCallbacksRan => hold_mode = ~Val(hold_mode_before)

\* ---------------------------------------------------------------------------
\* C38: no LuxReading that ShadowAvoider passes to the classifier, the
\* LuxAggregator mean of readings each produced by LightSensor.read, reaches
\* the 'Inconsistent lux reading' assertion: whenever the averaged
\* |diff_percent| meets the cutoff, the averaged outer and inner differ, so
\* that no evaluation ends in the AssertionError of _lux_compare (line 69).
\* ---------------------------------------------------------------------------
C38_MeanNeverInconsistent == av_result # "AssertionError"

\* ---------------------------------------------------------------------------
\* C39: every Status returned by get_status is a consistent snapshot: its
\* position field is the tracked position at the moment its region field was
\* computed, so a Status never pairs region OUTER_EDGE with a position that
\* is None or nonzero.
\* ---------------------------------------------------------------------------
C39_StatusIsSnapshot ==
    status.region = "OUTER_EDGE" => status.position = Some(OUTER_EDGE_VALUE)

====
